---- MODULE Spec2Model ----
(***************************************************************************)
(* Bot C09: offline analytics engine.                                      *)
(*                                                                         *)
(*   core/processor.py            stay aggregation (raw visits -> stays)   *)
(*   core/analytics_processor.py  event projection and hourly occupancy    *)
(*                                ("candles"), group deviation detection   *)
(*                                and escalation                           *)
(*                                                                         *)
(* Timestamps are integers counting ticks of 30 minutes; Hora1 ticks make  *)
(* one hour.  A pandas DataFrame is a sequence of records, one per row.    *)
(* A ';'-joined, sorted plate list (the "Veiculos no POI" column) is kept  *)
(* as the set of plates it lists; what a reader of the stored workbook     *)
(* gets back from such a cell is modelled by LerCelula / SplitVeiculos.    *)
(***************************************************************************)
EXTENDS Integers, Sequences, FiniteSets, TLC

VARIABLES
    pc,             \* position of the run: which step has been executed last
    df,             \* raw visits handed to _agrupar_registros_consecutivos
    df_ag,          \* the treated stay table (output of the aggregation)
    poi_arg,        \* the poi argument of the last gerar_candles_poi call
    eventos,        \* df_eventos returned by gerar_candles_poi
    df_contagem,    \* df_resumo_hora returned by gerar_candles_poi
    hoje,           \* datetime.now().date() of the run, as a day number
    agora,          \* datetime.now() of the run, as an instant
    resumo_hora_sp, \* rows of the stored sheet "Resumo por Hora"
    candles_sp,     \* rows of the stored sheet "Candles"
    grupo_arg,      \* the grupo argument of the last identificar_desvios_grupo
    threshold_arg,  \* its threshold argument
    df_alertas,     \* the alert rows it returned
    lista_antigos,  \* number of older items of the delivered-alerts list
    lista_sp,       \* the items of the list that follow the older ones
    envios,         \* number of enviar_alertas_sharepoint calls made
    retorno,        \* what the last call of a handler returned
    arquivo_reports,\* the stored workbook base_dados_reports.xlsx
    chamada_candles,\* the last atualizar_candles call: arguments, workbook before, buffer
    df_traj,        \* the stay table returned by _calcular_trajetos
    pc_ciclo,       \* position of the orchestrator: built, inside a cycle, cycle over
    modo_execucao,  \* C09Orchestrator.modo_execucao
    scraper,        \* C09Orchestrator.scraper
    unidades,       \* config["unidades"]
    ciclo,          \* which cycle is being executed: "CANDLES" or "COMPLETO"
    fila,           \* the active units the for statement of the cycle has still to visit
    sucessos,       \* counter sucessos of the cycle
    falhas,         \* counter falhas of the cycle
    resultados,     \* per unit visited: its name, what processar_unidade_* returned
    chamadas,       \* the calls the last processar_unidade_* made, in order
    cenario_ext,    \* how the external collaborators answered during that call
    retorno_ciclo,  \* what executar_ciclo_* returned
    pasta_download, \* whose report the file report.xlsx of the download folder holds, or "vazia"
    execution_state,\* app.py: the global execution_state
    threads,        \* app.py: the background threads started by index()
    respostas,      \* app.py: the responses index() has given to POST requests
    max_tentativas, \* the argument of executar_com_retry
    tentativa,      \* the loop variable of executar_com_retry
    notificacoes_criticas, \* number of _notificar_falha_critica calls made
    retorno_retry   \* what executar_com_retry returned: "True", "False" or "nenhum"

vars_entrega == <<lista_antigos, lista_sp, envios>>

vars_arquivo == <<arquivo_reports, chamada_candles>>

vars_ciclo == <<pc_ciclo, modo_execucao, scraper, unidades, ciclo, fila,
                sucessos, falhas, resultados, chamadas, cenario_ext,
                retorno_ciclo, pasta_download>>

vars_http == <<execution_state, threads, respostas>>

vars_retry == <<max_tentativas, tentativa, notificacoes_criticas, retorno_retry>>

vars_motor == <<pc, df, df_ag, poi_arg, eventos, df_contagem,
                hoje, agora, resumo_hora_sp, candles_sp,
                grupo_arg, threshold_arg, df_alertas,
                vars_entrega, retorno, vars_arquivo, df_traj>>

vars == <<vars_motor, vars_ciclo, vars_http, vars_retry>>

-----------------------------------------------------------------------------
(* Bounds and domains of the inputs.                                       *)

\* longest raw report handed to the stay aggregation
MaxVisits == 3

\* most stays of one treated table handed to gerar_candles_poi directly
MaxStays == 2

\* the stored hourly series spans the ticks JanelaInicio-1 .. JanelaInicio-1+MaxSlot
MaxSlot == 5

\* one hour, in ticks (timedelta(hours=1), freq='h', floor('h'), ceil('h'))
Hora1 == 2

\* one calendar day, in ticks (.dt.date)
TicksDia == 24 * Hora1

Veiculos == {"V1", "V2"}

\* monitored POIs of the unit and the groups the POI sheet gives them
config_pois ==
    << [ponto_interesse |-> "Oficina JSL",   grupo |-> "Manutencao",
        ativo |-> TRUE, threshold_alerta |-> 15],
       [ponto_interesse |-> "Buffer frotas", grupo |-> "Parada Operacional",
        ativo |-> TRUE, threshold_alerta |-> 5],
       [ponto_interesse |-> "Posto Mutum",   grupo |-> "Parada Operacional",
        ativo |-> TRUE, threshold_alerta |-> 5],
       [ponto_interesse |-> "Carregamento RRp", grupo |-> "Carregamento",
        ativo |-> TRUE, threshold_alerta |-> 8],
       [ponto_interesse |-> "Carregamento Fabrica RRP", grupo |-> "Fabrica",
        ativo |-> TRUE, threshold_alerta |-> 8],
       [ponto_interesse |-> "Desc. INO", grupo |-> "Descarregamento",
        ativo |-> TRUE, threshold_alerta |-> 15],
       [ponto_interesse |-> "Terminal Inocencia", grupo |-> "Terminal",
        ativo |-> TRUE, threshold_alerta |-> 15] >>

\* POIs that occur in the raw reports of the model
POIsVisita == {"Oficina JSL", "Buffer frotas"}

\* entry/exit instants of the raw visits
TemposVisita == 0 .. 1

\* entry/exit instants of the stays of a treated table
TemposStay == 0 .. 4

\* observation texts, as word sequences: none, and one that holds a
\* "still present" phrase in another letter case
ObsVazia == << >>
ObsAindaNoPoi == <<"Veiculo", "PERMANECEU", "no", "POI">>
Observacoes == {ObsVazia, ObsAindaNoPoi}

-----------------------------------------------------------------------------
(* core/processor.py: C09DataProcessor                                     *)

mapa_grupos(ponto) ==
    {config_pois[i].grupo : i \in {k \in DOMAIN config_pois :
                                     config_pois[k].ponto_interesse = ponto}}

_classificar_grupo(ponto) ==
    IF mapa_grupos(ponto) = {} THEN "Outros"
    ELSE CHOOSE g \in mapa_grupos(ponto) : TRUE

\* round(x, 5) of a duration of `ticks` ticks, in units of 0.00001 h
\* (round half to even on the exact quotient ticks * 100000 / Hora1)
TempoH(ticks) ==
    LET num == ticks * 100000
        q   == num \div Hora1
        r   == num % Hora1
    IN  IF 2 * r > Hora1 THEN q + 1
        ELSE IF 2 * r < Hora1 THEN q
        ELSE IF q % 2 = 0 THEN q ELSE q + 1

\* ContinuaBloco with the POI comparison left out
ContinuaBloco_SoVeiculo(registro, veic, ponto) ==
    registro.veiculo = veic

\* the condition of the inner while: the record at j continues the block
ContinuaBloco(registro, veic, ponto) ==
    registro.veiculo = veic /\ registro.ponto = ponto

\* the inner while: the first index after idx whose record does not continue
\* the block opened at idx
RECURSIVE FimDoBloco(_, _, _, _)
FimDoBloco(df_reset, j, veic, ponto) ==
    IF j <= Len(df_reset) /\ ContinuaBloco(df_reset[j], veic, ponto)
    THEN FimDoBloco(df_reset, j + 1, veic, ponto)
    ELSE j

\* StayDoBloco with saida never advanced inside the inner while
StayDoBloco_SaidaDoPrimeiro(df_reset, idx, j) ==
    LET atual == df_reset[idx]
    IN  [veiculo |-> atual.veiculo,
         ponto   |-> atual.ponto,
         entrada |-> atual.entrada,
         saida   |-> atual.saida,
         grupo   |-> _classificar_grupo(atual.ponto),
         obs     |-> atual.obs,
         tempo   |-> TempoH(atual.saida - atual.entrada)]

\* StayDoBloco with the inner while advancing entrada instead of saida
StayDoBloco_EntradaDoUltimo(df_reset, idx, j) ==
    LET atual == df_reset[idx]
        entrada == IF j = idx + 1 THEN atual.entrada ELSE df_reset[j - 1].entrada
        saida == atual.saida
    IN  [veiculo |-> atual.veiculo,
         ponto   |-> atual.ponto,
         entrada |-> entrada,
         saida   |-> saida,
         grupo   |-> _classificar_grupo(atual.ponto),
         obs     |-> atual.obs,
         tempo   |-> TempoH(saida - entrada)]

\* the dict appended for the block df_reset[idx .. j-1]
StayDoBloco(df_reset, idx, j) ==
    LET atual == df_reset[idx]
        entrada == atual.entrada
        saida == IF j = idx + 1 THEN atual.saida ELSE df_reset[j - 1].saida
    IN  [veiculo |-> atual.veiculo,
         ponto   |-> atual.ponto,
         entrada |-> entrada,
         saida   |-> saida,
         grupo   |-> _classificar_grupo(atual.ponto),
         obs     |-> atual.obs,
         tempo   |-> TempoH(saida - entrada)]

\* the outer while
RECURSIVE AgruparDesde(_, _)
AgruparDesde(df_reset, idx) ==
    IF idx > Len(df_reset) THEN << >>
    ELSE LET j == FimDoBloco(df_reset, idx + 1,
                             df_reset[idx].veiculo, df_reset[idx].ponto)
         IN  <<StayDoBloco(df_reset, idx, j)>> \o AgruparDesde(df_reset, j)

_agrupar_registros_consecutivos(d) == AgruparDesde(d, 1)

-----------------------------------------------------------------------------
(* core/analytics_processor.py: AnalyticsProcessor.gerar_candles_poi       *)

\* the phrases, lower case, as word sequences
PADROES_AINDA_NO_POI ==
    { <<"permaneceu", "no", "poi", "apos", "o", "fim", "do", "periodo", "pesquisado">>,
      <<"permaneceu", "no", "poi", "apos", "o", "fim", "do", "periodo">>,
      <<"ainda", "permanece", "no", "local">>,
      <<"continua", "no", "ponto", "de", "interesse">>,
      <<"periodo", "pesquisado", "finalizado">>,
      <<"veiculo", "permaneceu", "no", "poi">> }

\* str.lower() of one word
LowerPalavra(w) ==
    CASE w = "Veiculo"    -> "veiculo"
      [] w = "PERMANECEU" -> "permaneceu"
      [] w = "POI"        -> "poi"
      [] OTHER            -> w

\* str(observacao).lower().strip()
ObsLower(observacao) == [i \in DOMAIN observacao |-> LowerPalavra(observacao[i])]

\* padrao in obs_lower
Contem(padrao, texto) ==
    \E k \in 0 .. (Len(texto) - Len(padrao)) :
        \A i \in 1 .. Len(padrao) : texto[k + i] = padrao[i]

veiculo_ainda_esta_no_poi(observacao) ==
    \E padrao \in PADROES_AINDA_NO_POI : Contem(padrao, ObsLower(observacao))

\* df[df['Ponto de Interesse'] == poi]
FiltrarPoi(d, poi) ==
    LET DoPoi(registro) == registro.ponto = poi
    IN  SelectSeq(d, DoPoi)

\* the arrival events, one per stay, in the order of the table
Entradas(df_poi) ==
    [i \in DOMAIN df_poi |->
        [veiculo |-> df_poi[i].veiculo, data_evento |-> df_poi[i].entrada,
         evento |-> "entrada"]]

\* whether the stay gets a departure event
SaidaValida(registro) == ~ veiculo_ainda_esta_no_poi(registro.obs)

\* saidas_validas: the departure events of the stays that are not still present
RECURSIVE Saidas(_, _)
Saidas(df_poi, i) ==
    IF i > Len(df_poi) THEN << >>
    ELSE (IF SaidaValida(df_poi[i])
          THEN << [veiculo |-> df_poi[i].veiculo,
                   data_evento |-> df_poi[i].saida, evento |-> "saida"] >>
          ELSE << >>) \o Saidas(df_poi, i + 1)

\* pd.concat([entradas, saidas], ignore_index=True)
EventosConcat(df_poi) == Entradas(df_poi) \o Saidas(df_poi, 1)

Minimo(S) == CHOOSE x \in S : \A y \in S : x <= y
Maximo(S) == CHOOSE x \in S : \A y \in S : x >= y

\* the index orders that sort_values(by='Data Evento') may produce for the
\* rows idxs of c: ascending by instant; the default sort is not stable, so
\* rows with the same instant come out in any relative order
RECURSIVE Ordens(_, _)
Ordens(c, idxs) ==
    IF idxs = {} THEN { << >> }
    ELSE LET m == Minimo({c[i].data_evento : i \in idxs})
             primeiros == {i \in idxs : c[i].data_evento = m}
         IN  UNION { { <<i>> \o resto : resto \in Ordens(c, idxs \ {i}) } :
                     i \in primeiros }

\* every result eventos.sort_values(by='Data Evento') may have
SortValues(c) ==
    { [k \in DOMAIN c |-> c[o[k]]] : o \in Ordens(c, DOMAIN c) }

\* AplicarEvento with the departure branch dropped
AplicarEvento_SemSaida(dentro_poi, evento) ==
    IF evento.evento = "entrada" THEN dentro_poi \cup {evento.veiculo}
    ELSE dentro_poi

\* one step of the walk over the sorted events: the present set after evento
AplicarEvento(dentro_poi, evento) ==
    IF evento.evento = "entrada" THEN dentro_poi \cup {evento.veiculo}
    ELSE IF evento.evento = "saida" THEN dentro_poi \ {evento.veiculo}
    ELSE dentro_poi

\* veiculos_no_poi_evento: the snapshot after each event
RECURSIVE Snapshots(_, _, _)
Snapshots(ev, k, dentro_poi) ==
    IF k > Len(ev) THEN << >>
    ELSE LET depois == AplicarEvento(dentro_poi, ev[k])
         IN  <<depois>> \o Snapshots(ev, k + 1, depois)

\* the events with the columns 'Veiculos no POI' and 'POI'
EventosComSnapshot(ev, poi) ==
    LET snaps == Snapshots(ev, 1, {})
    IN  [k \in DOMAIN ev |->
            [veiculo |-> ev[k].veiculo, data_evento |-> ev[k].data_evento,
             evento |-> ev[k].evento, veiculos_no_poi |-> snaps[k], poi |-> poi]]

Floor_h(t) == (t \div Hora1) * Hora1
Ceil_h(t) == ((t + Hora1 - 1) \div Hora1) * Hora1

\* pd.date_range(start, end, freq='h')
DateRange(start_time, end_time) ==
    [i \in 1 .. ((end_time - start_time) \div Hora1 + 1) |->
        start_time + (i - 1) * Hora1]

\* eventos[(Data Evento >= hora_inicio) & (Data Evento < hora_fim)]
EventosHora(ev, hora_inicio, hora_fim) ==
    LET NaHora(e) == e.data_evento >= hora_inicio /\ e.data_evento < hora_fim
    IN  SelectSeq(ev, NaHora)

\* Replay that never raises the maximum of the bucket
RECURSIVE Replay_SemMaximo(_, _, _)
Replay_SemMaximo(eventos_hora, k, r) ==
    IF k > Len(eventos_hora) THEN r
    ELSE LET e == eventos_hora[k]
             linha == IF e.evento = "entrada" THEN r.linha_atual + 1
                      ELSE IF e.evento = "saida" THEN r.linha_atual - 1
                      ELSE r.linha_atual
         IN  Replay_SemMaximo(eventos_hora, k + 1,
                    [linha_atual |-> linha,
                     dentro_poi  |-> AplicarEvento(r.dentro_poi, e),
                     maximo      |-> r.maximo,
                     minimo      |-> IF linha < r.minimo THEN linha ELSE r.minimo])

\* the inner for of the hourly summary: replay of one bucket's events from
\* the running state r = [linha_atual, dentro_poi, maximo, minimo]
RECURSIVE Replay(_, _, _)
Replay(eventos_hora, k, r) ==
    IF k > Len(eventos_hora) THEN r
    ELSE LET e == eventos_hora[k]
             linha == IF e.evento = "entrada" THEN r.linha_atual + 1
                      ELSE IF e.evento = "saida" THEN r.linha_atual - 1
                      ELSE r.linha_atual
         IN  Replay(eventos_hora, k + 1,
                    [linha_atual |-> linha,
                     dentro_poi  |-> AplicarEvento(r.dentro_poi, e),
                     maximo      |-> IF linha > r.maximo THEN linha ELSE r.maximo,
                     minimo      |-> IF linha < r.minimo THEN linha ELSE r.minimo])

\* LinhaContagem with the start of the hour taken from the hour's minimum
LinhaContagem_InicioDoMinimo(hora_fim, veiculos_fim_anterior, r, poi) ==
    [hora |-> hora_fim,
     inicio |-> r.minimo,
     final |-> r.linha_atual,
     maximo |-> r.maximo,
     minimo |-> r.minimo,
     poi |-> poi,
     veiculos_no_poi |-> r.dentro_poi]

\* the dict appended to contagem for the bucket that ends at hora_fim
LinhaContagem(hora_fim, veiculos_fim_anterior, r, poi) ==
    [hora |-> hora_fim,
     inicio |-> veiculos_fim_anterior,
     final |-> r.linha_atual,
     maximo |-> r.maximo,
     minimo |-> r.minimo,
     poi |-> poi,
     veiculos_no_poi |-> r.dentro_poi]

\* the for over the timeline, from bucket i on
RECURSIVE Contagem(_, _, _, _, _, _, _)
Contagem(ev, timeline, i, linha_atual, dentro_poi, veiculos_fim_anterior, poi) ==
    IF i > Len(timeline) - 1 THEN << >>
    ELSE LET r == Replay(EventosHora(ev, timeline[i], timeline[i + 1]), 1,
                         [linha_atual |-> linha_atual, dentro_poi |-> dentro_poi,
                          maximo |-> linha_atual, minimo |-> linha_atual])
         IN  <<LinhaContagem(timeline[i + 1], veiculos_fim_anterior, r, poi)>>
             \o Contagem(ev, timeline, i + 1, r.linha_atual, r.dentro_poi,
                         r.linha_atual, poi)

\* df_contagem for the sorted events ev
ResumoPorHora(ev, poi) ==
    IF Len(ev) = 0 THEN << >>
    ELSE LET instantes == {ev[k].data_evento : k \in DOMAIN ev}
             timeline == DateRange(Floor_h(Minimo(instantes)),
                                   Ceil_h(Maximo(instantes)))
         IN  Contagem(ev, timeline, 1, 0, {}, 0, poi)

-----------------------------------------------------------------------------
(* core/reports_sharepoint.py: what a reader of the stored workbook gets   *)

\* carregar_candles_sharepoint: pd.read_excel of a cell of the column
\* "Veiculos no POI".  The writer stored ';'.join(sorted(dentro_poi)); for an
\* empty set that is the empty string, which read_excel gives back as NaN
LerCelula(placas) == [nan |-> placas = {}, placas |-> placas]

\* the rows of the sheet "Resumo por Hora" as read_excel returns them
carregar_resumo_por_hora(sp) ==
    { [poi |-> l.poi, hora |-> l.hora, veiculos_no_poi |-> LerCelula(l.veiculos_no_poi)] :
      l \in sp }

-----------------------------------------------------------------------------
(* core/analytics_processor.py: deviation detection and escalation         *)

unidade == "RRP"

\* range(4): the days of the lookback window
LookbackDays == 4

\* the cap of min(nivel + 1, 4)
NivelMaximo == 4

\* step 1 of identificar_desvios_grupo: the POIs of the group
pois_do_grupo(grupo) ==
    { config_pois[k].ponto_interesse : k \in
        { i \in DOMAIN config_pois :
            /\ config_pois[i].grupo = grupo
            /\ config_pois[i].ativo
            /\ config_pois[i].threshold_alerta > 0 } }

\* .dt.date of an instant
Data(t) == t \div TicksDia

\* dias = [hoje - timedelta(days=i) for i in range(4)]
Dias(dia_hoje) == { dia_hoje - i : i \in 0 .. (LookbackDays - 1) }

\* [v for v in str(cell).split(';') if v.strip()]: str(NaN) is 'nan'
SplitVeiculos(celula) == IF celula.nan THEN {"nan"} ELSE celula.placas

\* df_resumo_hora[POI.isin(pois_do_grupo) & Hora.dt.date.isin(dias)]
FiltrarGrupoJanela(df_resumo_hora, pois, dia_hoje) ==
    { l \in df_resumo_hora : l.poi \in pois /\ Data(l.hora) \in Dias(dia_hoje) }

\* todos_veiculos of one hour: the union over the rows of the hour
TodosVeiculos(df_hora) == UNION { SplitVeiculos(l.veiculos_no_poi) : l \in df_hora }

\* the consolidated record of one hour
Consolidar(df_grupo, hora, grupo) ==
    LET df_hora == { l \in df_grupo : l.hora = hora }
        todos_veiculos == TodosVeiculos(df_hora)
    IN  [hora |-> hora,
         grupo |-> grupo,
         veiculos_no_grupo |-> todos_veiculos,
         total_veiculos |-> Cardinality(todos_veiculos),
         detalhes_pois |->
            { <<l.poi, Cardinality(SplitVeiculos(l.veiculos_no_poi))>> :
              l \in { x \in df_hora : SplitVeiculos(x.veiculos_no_poi) # {} } },
         pois_envolvidos |-> Cardinality(df_hora)]

_gerar_dados_sentinela_grupo(sp, grupo, pois, dia_hoje) ==
    LET df_grupo == FiltrarGrupoJanela(carregar_resumo_por_hora(sp), pois, dia_hoje)
        horas_unicas == { l.hora : l \in df_grupo }
    IN  { Consolidar(df_grupo, hora, grupo) : hora \in horas_unicas }

\* n_veiculos: the count over the joined plate list of the consolidated row
n_veiculos(linha) == Cardinality(linha.veiculos_no_grupo)

\* Qualifica with the count compared for equality
Qualifica_Igual(linha, threshold) == n_veiculos(linha) = threshold

\* df_grupo_consolidado[n_veiculos >= threshold]
Qualifica(linha, threshold) == n_veiculos(linha) >= threshold

\* sort_values("Hora") of a table that has one row per hour
RECURSIVE SortPorHora(_)
SortPorHora(linhas) ==
    IF linhas = {} THEN << >>
    ELSE LET primeira == CHOOSE l \in linhas : \A o \in linhas : l.hora <= o.hora
         IN  <<primeira>> \o SortPorHora(linhas \ {primeira})

\* step 3: df_filtrado
DfFiltrado(sp, grupo, threshold, dia_hoje) ==
    SortPorHora({ l \in _gerar_dados_sentinela_grupo(sp, grupo, pois_do_grupo(grupo), dia_hoje) :
                  Qualifica(l, threshold) })

\* NovoNivel with the level restarted at a gap of one hour or more
NovoNivel_GapMaiorIgual(ultimo_alerta, nivel, hora_atual) ==
    IF ultimo_alerta = << >> \/ (hora_atual - ultimo_alerta[1]) >= Hora1
    THEN 1
    ELSE IF nivel + 1 < NivelMaximo THEN nivel + 1 ELSE NivelMaximo

\* NovoNivel without the cap
NovoNivel_SemTeto(ultimo_alerta, nivel, hora_atual) ==
    IF ultimo_alerta = << >> \/ (hora_atual - ultimo_alerta[1]) > Hora1
    THEN 1
    ELSE nivel + 1

\* the level of the alert of hora_atual; ultimo_alerta is << >> for None
NovoNivel(ultimo_alerta, nivel, hora_atual) ==
    IF ultimo_alerta = << >> \/ (hora_atual - ultimo_alerta[1]) > Hora1
    THEN 1
    ELSE IF nivel + 1 < NivelMaximo THEN nivel + 1 ELSE NivelMaximo

\* grupo.replace(' ', '').replace('c-cedilla', 'c').replace('a-tilde', 'a')
GrupoClean(grupo) ==
    CASE grupo = "Parada Operacional" -> "ParadaOperacional"
      [] grupo = "Manutencao"         -> "Manutencao"
      [] OTHER                        -> grupo

\* _gerar_titulo_alerta_grupo with the time of day left out of the title
_gerar_titulo_alerta_grupo_SemHora(grupo, hora, nivel) ==
    [unidade |-> unidade, grupo_clean |-> GrupoClean(grupo), nivel |-> nivel,
     data_str |-> Data(hora), hora_str |-> 0]

\* f"{unidade}_{grupo_clean}_N{nivel}_{data_str}_{hora_str}", by its parts
_gerar_titulo_alerta_grupo(grupo, hora, nivel) ==
    [unidade |-> unidade, grupo_clean |-> GrupoClean(grupo), nivel |-> nivel,
     data_str |-> Data(hora), hora_str |-> hora % TicksDia]

\* the order of sorted() on the plates: upper case before lower case
OrdemPlaca(v) ==
    CASE v = "V1" -> 1 [] v = "V2" -> 2 [] OTHER -> 3

\* the plates of the joined list, in its order
RECURSIVE PlacasOrdenadas(_)
PlacasOrdenadas(placas) ==
    IF placas = {} THEN << >>
    ELSE LET p == CHOOSE v \in placas : \A o \in placas : OrdemPlaca(v) <= OrdemPlaca(o)
         IN  <<p>> \o PlacasOrdenadas(placas \ {p})

\* the alerts of one qualifying hour: one per plate of the group's list
AlertasDaHora(linha, grupo, nivel) ==
    LET placas == PlacasOrdenadas(linha.veiculos_no_grupo)
    IN  [k \in DOMAIN placas |->
            [titulo |-> _gerar_titulo_alerta_grupo(grupo, linha.hora, nivel),
             placa |-> placas[k],
             ponto_de_interesse |-> grupo,
             detalhes_pois |-> linha.detalhes_pois,
             data_hora_desvio |-> linha.hora,
             data_hora_entrada |-> << >>,
             tempo |-> << >>,
             nivel |-> <<"Tratativa N", nivel>>,
             grupo |-> grupo]]

\* step 4: the for over df_filtrado, from row i on
RECURSIVE Escalation(_, _, _, _, _)
Escalation(df_filtrado, i, ultimo_alerta, nivel, grupo) ==
    IF i > Len(df_filtrado) THEN << >>
    ELSE LET hora_atual == df_filtrado[i].hora
             n == NovoNivel(ultimo_alerta, nivel, hora_atual)
         IN  AlertasDaHora(df_filtrado[i], grupo, n)
             \o Escalation(df_filtrado, i + 1, <<hora_atual>>, n, grupo)

\* the alerts of identificar_desvios_grupo before they are enriched
Alertas(sp, grupo, threshold, dia_hoje) ==
    IF pois_do_grupo(grupo) = {} THEN << >>
    ELSE Escalation(DfFiltrado(sp, grupo, threshold, dia_hoje), 1, << >>, 0, grupo)

\* round(num / den, 0) for num >= 0: round half to even
RoundDiv(num, den) ==
    LET q == num \div den
        r == num % den
    IN  IF 2 * r > den THEN q + 1
        ELSE IF 2 * r < den THEN q
        ELSE IF q % 2 = 0 THEN q ELSE q + 1

\* the POIs buscar_hora_entrada_grupo searches: the active ones of the group
pois_do_grupo_entrada(grupo) ==
    { config_pois[k].ponto_interesse : k \in
        { i \in DOMAIN config_pois :
            config_pois[i].grupo = grupo /\ config_pois[i].ativo } }

\* buscar_hora_entrada_grupo without the limit of the deviation instant
buscar_hora_entrada_grupo_SemLimite(candles, row) ==
    LET entradas == { e \in candles :
                        /\ e.evento = "entrada"
                        /\ e.veiculo = row.placa
                        /\ e.poi \in pois_do_grupo_entrada(row.grupo) }
    IN  IF entradas = {} THEN << >>
        ELSE << Maximo({ e.data_evento : e \in entradas }) >>

\* buscar_hora_entrada_grupo: the latest stored arrival of the plate in a POI
\* of the group at or before the deviation; << >> is NaT
buscar_hora_entrada_grupo(candles, row) ==
    LET entradas == { e \in candles :
                        /\ e.evento = "entrada"
                        /\ e.veiculo = row.placa
                        /\ e.poi \in pois_do_grupo_entrada(row.grupo)
                        /\ e.data_evento <= row.data_hora_desvio }
    IN  IF entradas = {} THEN << >>
        ELSE << Maximo({ e.data_evento : e \in entradas }) >>

\* calcular_tempo_permanencia: hours until now, in units of 0.01 h
calcular_tempo_permanencia(entrada, instante_agora) ==
    IF entrada = << >> THEN << >>
    ELSE << RoundDiv((instante_agora - entrada[1]) * 100, Hora1) >>

_enriquecer_alertas_entrada_grupo(alertas, candles, instante_agora) ==
    IF Len(alertas) = 0 \/ candles = {} THEN alertas
    ELSE [k \in DOMAIN alertas |->
            LET entrada == buscar_hora_entrada_grupo(candles, alertas[k])
            IN  [alertas[k] EXCEPT
                    !.data_hora_entrada = entrada,
                    !.tempo = calcular_tempo_permanencia(entrada, instante_agora)]]

-----------------------------------------------------------------------------
(* core/processor.py: _calcular_trajetos.  A row of its table is a stay    *)
(* with the columns 'Trajeto Carregado', 'Trajeto Vazio' (units of         *)
(* 0.00001 h) and 'Observação' (the sequence of the annotations appended). *)

\* self.slas["trajeto_carregado"] = 6.3667 * 1.3, in units of 0.00001 h
sla_trajeto_carregado == 827671

\* self.slas["trajeto_vazio"] = 6.0833 * 1.3, in units of 0.00001 h
sla_trajeto_vazio == 790829

GruposCarga == {"Carregamento", "Fabrica"}
GruposDescarga == {"Descarregamento", "Terminal"}

\* the columns _agrupar_registros_consecutivos adds before returning
ComColunasTrajeto(stay) ==
    [veiculo |-> stay.veiculo, ponto |-> stay.ponto, entrada |-> stay.entrada,
     saida |-> stay.saida, grupo |-> stay.grupo, obs |-> stay.obs,
     tempo |-> stay.tempo, trajeto_carregado |-> 0, trajeto_vazio |-> 0,
     observacao |-> << >>]

\* soma_justificativas that counts the hours in Manutenção only
RECURSIVE soma_justificativas_SoManutencao(_, _, _)
soma_justificativas_SoManutencao(df_temp, k, i_fim) ==
    IF k >= i_fim THEN [horas_manutencao |-> 0, horas_operacional |-> 0]
    ELSE LET resto == soma_justificativas_SoManutencao(df_temp, k + 1, i_fim)
             registro == df_temp[k]
         IN  IF registro.grupo = "Manutencao"
             THEN [resto EXCEPT !.horas_manutencao = @ + registro.tempo]
             ELSE resto

\* soma_justificativas: the hours in Manutenção and in Parada Operacional of
\* the rows k in range(i_inicio + 1, i_fim), from row k on
RECURSIVE soma_justificativas(_, _, _)
soma_justificativas(df_temp, k, i_fim) ==
    IF k >= i_fim THEN [horas_manutencao |-> 0, horas_operacional |-> 0]
    ELSE LET resto == soma_justificativas(df_temp, k + 1, i_fim)
             registro == df_temp[k]
         IN  IF registro.grupo = "Manutencao"
             THEN [resto EXCEPT !.horas_manutencao = @ + registro.tempo]
             ELSE IF registro.grupo = "Parada Operacional"
             THEN [resto EXCEPT !.horas_operacional = @ + registro.tempo]
             ELSE resto

\* ProximoDestino that goes on past the rows of other vehicles
RECURSIVE ProximoDestino_OutroVeiculo(_, _, _, _)
ProximoDestino_OutroVeiculo(d, j, veic, destinos) ==
    IF j > Len(d) THEN 0
    ELSE IF d[j].grupo \in destinos THEN j
    ELSE ProximoDestino_OutroVeiculo(d, j + 1, veic, destinos)

\* the inner for from row j on: the row at which it reaches its second break
\* (the first row of a group of destinos), 0 when it ends at a row of another
\* vehicle or at the end of the table
RECURSIVE ProximoDestino(_, _, _, _)
ProximoDestino(d, j, veic, destinos) ==
    IF j > Len(d) THEN 0
    ELSE IF d[j].veiculo # veic THEN 0
    ELSE IF d[j].grupo \in destinos THEN j
    ELSE ProximoDestino(d, j + 1, veic, destinos)

\* delta_h > sla, for a delta of delta ticks and an sla in units of 0.00001 h
ExcedeSla(delta, sla) == delta * 100000 > sla * Hora1

\* the text appended to 'Observação'
Anotacao(tipo, delta, sla, horas) ==
    IF horas.horas_manutencao + horas.horas_operacional > 0
    THEN [tipo |-> tipo, delta |-> TempoH(delta), sla |-> sla,
          justificativa |-> "itens",
          horas_manutencao |-> horas.horas_manutencao,
          horas_operacional |-> horas.horas_operacional]
    ELSE [tipo |-> tipo, delta |-> TempoH(delta), sla |-> sla,
          justificativa |-> "sem justificativa",
          horas_manutencao |-> 0, horas_operacional |-> 0]

\* what one branch of the loop body writes for row i: the trajectory and the
\* annotations, for the destination groups destinos and the bound sla
Trajeto(d, i, destinos, tipo, sla) ==
    LET j == ProximoDestino(d, i + 1, d[i].veiculo, destinos)
    IN  IF j = 0 \/ d[j].entrada < d[i].saida
        THEN [valor |-> 0, observacao |-> << >>]
        ELSE LET delta == d[j].entrada - d[i].saida
             IN  [valor |-> TempoH(delta),
                  observacao |->
                      IF ExcedeSla(delta, sla)
                      THEN << Anotacao(tipo, delta, sla,
                                       soma_justificativas(d, i + 1, j)) >>
                      ELSE << >>]

\* the body of the for over the rows, for row i
LinhaComTrajeto(d, i) ==
    LET linha == ComColunasTrajeto(d[i])
    IN  IF d[i].grupo \in GruposCarga
        THEN LET t == Trajeto(d, i, GruposDescarga, "Trajeto Carregado",
                              sla_trajeto_carregado)
             IN  [linha EXCEPT !.trajeto_carregado = t.valor,
                               !.observacao = t.observacao]
        ELSE IF d[i].grupo \in GruposDescarga
        THEN LET t == Trajeto(d, i, GruposCarga, "Trajeto Vazio", sla_trajeto_vazio)
             IN  [linha EXCEPT !.trajeto_vazio = t.valor,
                               !.observacao = t.observacao]
        ELSE linha

_calcular_trajetos(d) == [i \in DOMAIN d |-> LinhaComTrajeto(d, i)]

-----------------------------------------------------------------------------
(* core/reports_sharepoint.py: the writer of the stored workbook.  A sheet *)
(* is the sequence of its rows; a sheet without rows is not written, and   *)
(* reading a sheet that is not there gives no rows.  A membership cell is  *)
(* kept as the set of its plates ('' is the empty set), which is also what *)
(* a loaded row written again holds.                                       *)

\* calls of atualizar_candles in one behaviour
MaxChamadas == 2

\* calendar months, all taken 30 days long; MesAno numbers the (year, month)
\* pairs, so dt.month == mes and dt.year == ano is MesAno(t) = mes
TicksMes == 30 * TicksDia
MesAno(t) == t \div TicksMes

\* no file base_dados_reports.xlsx in the folder
ArquivoVazio ==
    [existe |-> FALSE, resumo |-> << >>, candles |-> << >>, resumo_hora |-> << >>]

SemChamada ==
    [n |-> 0, poi |-> "", mes |-> 0, eventos_novos |-> << >>,
     resumo_novos |-> << >>, antes |-> ArquivoVazio, buffer |-> ArquivoVazio]

\* carregar_candles_sharepoint(sheet_name): the rows of the sheet, or an empty
\* DataFrame when the download or the read raises
carregar_candles_sharepoint(arquivo, sheet_name, falha) ==
    IF falha \/ ~ arquivo.existe THEN << >> ELSE arquivo[sheet_name]

\* carregar_arquivo_reports: the rows of the sheet "Resumo", or None
carregar_arquivo_reports(arquivo, falha) ==
    IF falha \/ ~ arquivo.existe THEN [none |-> TRUE, linhas |-> << >>]
    ELSE [none |-> FALSE, linhas |-> arquivo.resumo]

\* df[~((df['Data Evento'].dt.month == mes) & (dt.year == ano) & (df['POI'] == poi))]
RemoverCandles(linhas, poi, mes) ==
    LET Fica(l) == ~ (MesAno(l.data_evento) = mes /\ l.poi = poi)
    IN  SelectSeq(linhas, Fica)

\* df[~((df['Hora'].dt.month == mes) & (dt.year == ano) & (df['POI'] == poi))]
RemoverResumoHora(linhas, poi, mes) ==
    LET Fica(l) == ~ (MesAno(l.hora) = mes /\ l.poi = poi)
    IN  SelectSeq(linhas, Fica)

\* df_candles_final of atualizar_candles
CandlesFinal(existente, novos, poi, mes) ==
    IF Len(existente) > 0 THEN RemoverCandles(existente, poi, mes) \o novos
    ELSE novos

\* df_resumo_hora_final of atualizar_candles
ResumoHoraFinal(existente, novos, poi, mes) ==
    IF Len(existente) > 0 THEN RemoverResumoHora(existente, poi, mes) \o novos
    ELSE novos

\* the workbook salvar_arquivo_reports builds in memory
BufferExcel(df_resumo, df_candles, df_resumo_hora) ==
    [existe |-> TRUE, resumo |-> df_resumo, candles |-> df_candles,
     resumo_hora |-> df_resumo_hora]

\* the workbook atualizar_candles hands to the upload
BufferCandles(arquivo, novos_ev, novos_rh, poi, mes, falha_c, falha_rh, falha_r) ==
    LET df_candles_existente == carregar_candles_sharepoint(arquivo, "candles", falha_c)
        df_resumo_existente == carregar_candles_sharepoint(arquivo, "resumo_hora", falha_rh)
        df_resumo_geral == carregar_arquivo_reports(arquivo, falha_r)
    IN  BufferExcel(df_resumo_geral.linhas,
                    CandlesFinal(df_candles_existente, novos_ev, poi, mes),
                    ResumoHoraFinal(df_resumo_existente, novos_rh, poi, mes))

\* the folder after arquivo_antigo.delete_object(): the file is gone when the
\* request succeeds; a raising request is swallowed
RemoverArquivoAntigo(arquivo, falha_delete) ==
    IF falha_delete \/ ~ arquivo.existe THEN arquivo ELSE ArquivoVazio

-----------------------------------------------------------------------------
(* The runs.                                                               *)

\* the order of the column "Veiculo"
OrdemVeiculo(v) == CASE v = "V1" -> 1 [] OTHER -> 2

\* sort_values(by=["Veiculo", "Data Entrada"]) of processar_relatorio_c09
OrdenadoPorVeiculoEntrada(d) ==
    \A i \in 1 .. Len(d) - 1 :
        \/ OrdemVeiculo(d[i].veiculo) < OrdemVeiculo(d[i + 1].veiculo)
        \/ d[i].veiculo = d[i + 1].veiculo /\ d[i].entrada <= d[i + 1].entrada

\* a raw visit of the report: the exit is not before the entry
RawVisits ==
    { [veiculo |-> v, ponto |-> p, entrada |-> e, saida |-> x, obs |-> o] :
        v \in Veiculos, p \in POIsVisita, e \in TemposVisita,
        x \in TemposVisita, o \in Observacoes }

RawVisitsValidas == { r \in RawVisits : r.entrada <= r.saida }

\* the filtered and sorted reports of 1 .. MaxVisits rows
Relatorios ==
    { d \in UNION { [1 .. n -> RawVisitsValidas] : n \in 1 .. MaxVisits } :
        OrdenadoPorVeiculoEntrada(d) }

\* no delivery has been attempted and the delivered-alerts list is empty
InitSemEntrega ==
    /\ lista_antigos = 0
    /\ lista_sp = << >>
    /\ envios = 0

\* no workbook is stored and atualizar_candles was never called
InitSemArquivo ==
    /\ arquivo_reports = ArquivoVazio
    /\ chamada_candles = SemChamada

\* executar_com_retry has not been called
InitSemRetry ==
    /\ max_tentativas = 0
    /\ tentativa = 0
    /\ notificacoes_criticas = 0
    /\ retorno_retry = "nenhum"

\* no orchestrator has been built
InitSemCiclo ==
    /\ pc_ciclo = "nenhum"
    /\ modo_execucao = ""
    /\ scraper = "None"
    /\ unidades = << >>
    /\ ciclo = ""
    /\ fila = << >>
    /\ sucessos = 0
    /\ falhas = 0
    /\ resultados = << >>
    /\ chamadas = << >>
    /\ cenario_ext = "nenhum"
    /\ retorno_ciclo = "nenhum"
    /\ pasta_download = "vazia"

\* the HTTP shell is not part of the run
InitSemHttp ==
    /\ execution_state = [running |-> FALSE, last_result |-> "None", mode |-> "None"]
    /\ threads = << >>
    /\ respostas = << >>

InitComum ==
    /\ retorno = "nenhum"
    /\ poi_arg = ""
    /\ eventos = << >>
    /\ df_contagem = << >>
    /\ hoje = 4
    /\ agora = hoje * TicksDia + 18
    /\ grupo_arg = ""
    /\ threshold_arg = 0
    /\ df_alertas = << >>

Init ==
    /\ pc = "inicio"
    /\ df \in Relatorios
    /\ df_ag = << >>
    /\ resumo_hora_sp = {}
    /\ candles_sp = {}
    /\ InitComum
    /\ InitSemEntrega
    /\ InitSemArquivo
    /\ df_traj = << >>
    /\ InitSemCiclo
    /\ InitSemHttp
    /\ InitSemRetry

\* step 5 of processar_relatorio_c09
agrupar_registros_consecutivos ==
    /\ pc = "inicio"
    /\ df_ag' = _agrupar_registros_consecutivos(df)
    /\ pc' = "agrupado"
    /\ UNCHANGED <<df, poi_arg, eventos, df_contagem, hoje, agora,
                   resumo_hora_sp, candles_sp, grupo_arg, threshold_arg, df_alertas>>
    /\ UNCHANGED <<vars_entrega, retorno, vars_arquivo, df_traj, vars_ciclo, vars_http, vars_retry>>

gerar_candles_poi(poi) ==
    /\ pc = "agrupado"
    /\ LET df_poi == FiltrarPoi(df_ag, poi)
       IN  IF Len(df_poi) = 0
           THEN eventos' = << >> /\ df_contagem' = << >>
           ELSE \E ev \in SortValues(EventosConcat(df_poi)) :
                    /\ eventos' = EventosComSnapshot(ev, poi)
                    /\ df_contagem' = ResumoPorHora(ev, poi)
    /\ poi_arg' = poi
    /\ pc' = "candles"
    /\ UNCHANGED <<df, df_ag, hoje, agora, resumo_hora_sp, candles_sp,
                   grupo_arg, threshold_arg, df_alertas>>
    /\ UNCHANGED <<vars_entrega, retorno, vars_arquivo, df_traj, vars_ciclo, vars_http, vars_retry>>

GerarCandles == \E poi \in POIsVisita : gerar_candles_poi(poi)

Next == agrupar_registros_consecutivos \/ GerarCandles

Spec == Init /\ [][Next]_vars

\* a row of a treated table
StayRow(v, p, e, x, o) ==
    [veiculo |-> v, ponto |-> p, entrada |-> e, saida |-> x,
     grupo |-> _classificar_grupo(p), obs |-> o, tempo |-> TempoH(x - e)]

\* the stays one POI can have in a treated table
StaysPoi ==
    { StayRow(v, "Oficina JSL", e, x, o) :
        v \in Veiculos, e \in TemposStay, x \in TemposStay, o \in Observacoes }

StaysPoiValidas == { r \in StaysPoi : r.entrada <= r.saida }

OrdemObs(o) == IF o = ObsVazia THEN 1 ELSE 2

\* the rows in the order of the treated table, (vehicle, entry); rows with the
\* same vehicle and entry are listed once, by (exit, observation)
OrdemTabela(a, b) ==
    \/ OrdemVeiculo(a.veiculo) < OrdemVeiculo(b.veiculo)
    \/ /\ a.veiculo = b.veiculo
       /\ \/ a.entrada < b.entrada
          \/ a.entrada = b.entrada /\ a.saida < b.saida
          \/ a.entrada = b.entrada /\ a.saida = b.saida /\ OrdemObs(a.obs) <= OrdemObs(b.obs)

TabelasTratadas ==
    { d \in UNION { [1 .. n -> StaysPoiValidas] : n \in 1 .. MaxStays } :
        \A i \in 1 .. Len(d) - 1 : OrdemTabela(d[i], d[i + 1]) }

\* gerar_candles_poi on a treated table
InitCandles ==
    /\ pc = "agrupado"
    /\ df = << >>
    /\ df_ag \in TabelasTratadas
    /\ resumo_hora_sp = {}
    /\ candles_sp = {}
    /\ InitComum
    /\ InitSemEntrega
    /\ InitSemArquivo
    /\ df_traj = << >>
    /\ InitSemCiclo
    /\ InitSemHttp
    /\ InitSemRetry

NextCandles == GerarCandles

SpecCandles == InitCandles /\ [][NextCandles]_vars

\* the first instant of the lookback window of the run of day `dia_hoje`
JanelaInicio(dia_hoje) == (dia_hoje - (LookbackDays - 1)) * TicksDia

\* the instants of the stored hourly series: the last one before the window
\* and the first MaxSlot ones of the window, half an hour apart
HorasSerie(dia_hoje) ==
    { JanelaInicio(dia_hoje) - 1 + k : k \in 0 .. MaxSlot }

\* what the stored series may hold for one instant: (POI, plates) rows
CenariosHora ==
    { {},
      { <<"Buffer frotas", {"V1"}>>, <<"Posto Mutum", {"V1"}>> },
      { <<"Buffer frotas", {"V1"}>>, <<"Posto Mutum", {"V2"}>> },
      { <<"Buffer frotas", {"V1"}>>, <<"Posto Mutum", {}>> },
      { <<"Oficina JSL", {"V1", "V2"}>> } }

\* what the stored series may hold for the instant before the window
CenariosAntes ==
    { {}, { <<"Buffer frotas", {"V1"}>>, <<"Posto Mutum", {"V2"}>> } }

\* the rows of a series that holds cenario[h] at every instant h
LinhasSerie(cenario) ==
    UNION { { [poi |-> c[1], hora |-> h, veiculos_no_poi |-> c[2]] : c \in cenario[h] } :
            h \in DOMAIN cenario }

\* a stored arrival/departure history
HistoricoCandles(dia_hoje) ==
    { [veiculo |-> "V1", poi |-> "Buffer frotas", evento |-> "entrada",
       data_evento |-> JanelaInicio(dia_hoje) - 2],
      [veiculo |-> "V1", poi |-> "Posto Mutum", evento |-> "entrada",
       data_evento |-> JanelaInicio(dia_hoje) + 2],
      [veiculo |-> "V1", poi |-> "Oficina JSL", evento |-> "entrada",
       data_evento |-> JanelaInicio(dia_hoje) + 1],
      [veiculo |-> "V2", poi |-> "Posto Mutum", evento |-> "saida",
       data_evento |-> JanelaInicio(dia_hoje)],
      [veiculo |-> "V2", poi |-> "Posto Mutum", evento |-> "entrada",
       data_evento |-> JanelaInicio(dia_hoje) + 3] }

\* the groups and thresholds the alert system is run with
GruposAlerta == {"Parada Operacional", "Manutencao"}
Thresholds == {1, 2}

InitDesvios ==
    /\ pc = "sentinela"
    /\ df = << >>
    /\ df_ag = << >>
    /\ InitComum
    /\ InitSemEntrega
    /\ InitSemArquivo
    /\ df_traj = << >>
    /\ InitSemCiclo
    /\ InitSemHttp
    /\ InitSemRetry
    /\ \E cenario \in [HorasSerie(4) -> CenariosHora] :
           /\ cenario[JanelaInicio(4) - 1] \in CenariosAntes
           /\ resumo_hora_sp = LinhasSerie(cenario)
    /\ candles_sp = HistoricoCandles(4)

identificar_desvios_grupo(grupo, threshold) ==
    /\ pc = "sentinela"
    /\ df_alertas' = _enriquecer_alertas_entrada_grupo(
                         Alertas(resumo_hora_sp, grupo, threshold, hoje),
                         candles_sp, agora)
    /\ grupo_arg' = grupo
    /\ threshold_arg' = threshold
    /\ pc' = "alertas"
    /\ UNCHANGED <<df, df_ag, poi_arg, eventos, df_contagem, hoje, agora,
                   resumo_hora_sp, candles_sp>>
    /\ UNCHANGED <<vars_entrega, retorno, vars_arquivo, df_traj, vars_ciclo, vars_http, vars_retry>>

IdentificarDesvios ==
    \E grupo \in GruposAlerta, threshold \in Thresholds :
        identificar_desvios_grupo(grupo, threshold)

NextDesvios == IdentificarDesvios

SpecDesvios == InitDesvios /\ [][NextDesvios]_vars

-----------------------------------------------------------------------------
(* From the treated table to the alerts: gerar_candles_poi, the stored     *)
(* series, identificar_desvios_grupo.                                      *)

\* entry/exit instants of the stays: the first two hours of the lookback
\* window of the run, half an hour apart
TemposExemplo == { JanelaInicio(4) + k : k \in 0 .. 3 }

StaysExemplo ==
    { StayRow(v, "Oficina JSL", e, x, o) :
        v \in Veiculos, e \in TemposExemplo, x \in TemposExemplo, o \in Observacoes }

\* treated tables of 1 .. MaxStays stays of one POI
TabelasExemplo ==
    { d \in UNION { [1 .. n -> { r \in StaysExemplo : r.entrada <= r.saida }] :
                      n \in 1 .. MaxStays } :
        \A i \in 1 .. Len(d) - 1 : OrdemTabela(d[i], d[i + 1]) }

\* the columns of df_contagem the sheet "Resumo por Hora" is read by
LinhasResumoHora(contagem) ==
    { [poi |-> contagem[k].poi, hora |-> contagem[k].hora,
       veiculos_no_poi |-> contagem[k].veiculos_no_poi] : k \in DOMAIN contagem }

\* the columns of df_eventos the sheet "Candles" is read by
LinhasCandles(ev) ==
    { [veiculo |-> ev[k].veiculo, poi |-> ev[k].poi, evento |-> ev[k].evento,
       data_evento |-> ev[k].data_evento] : k \in DOMAIN ev }

\* atualizar_candles with every request succeeding, on the stored sheets as
\* the detector reads them: the rows of the POI and month are replaced by
\* the new ones; without events nothing is stored
atualizar_candles_serie(mes) ==
    /\ pc = "candles"
    /\ IF Len(eventos) = 0
       THEN UNCHANGED <<resumo_hora_sp, candles_sp>>
       ELSE /\ resumo_hora_sp' =
                  { l \in resumo_hora_sp : ~ (MesAno(l.hora) = mes /\ l.poi = poi_arg) }
                  \cup LinhasResumoHora(df_contagem)
            /\ candles_sp' =
                  { l \in candles_sp : ~ (MesAno(l.data_evento) = mes /\ l.poi = poi_arg) }
                  \cup LinhasCandles(eventos)
    /\ pc' = "sentinela"
    /\ UNCHANGED <<df, df_ag, poi_arg, eventos, df_contagem, hoje, agora,
                   grupo_arg, threshold_arg, df_alertas>>
    /\ UNCHANGED <<vars_entrega, retorno, vars_arquivo, df_traj, vars_ciclo, vars_http, vars_retry>>

AtualizarCandlesSerie == atualizar_candles_serie(MesAno(agora))

InitExemplo ==
    /\ pc = "agrupado"
    /\ df = << >>
    /\ df_ag \in TabelasExemplo
    /\ resumo_hora_sp = {}
    /\ candles_sp = {}
    /\ InitComum
    /\ InitSemEntrega
    /\ InitSemArquivo
    /\ df_traj = << >>
    /\ InitSemCiclo
    /\ InitSemHttp
    /\ InitSemRetry

NextExemplo == GerarCandles \/ AtualizarCandlesSerie \/ IdentificarDesvios

SpecExemplo == InitExemplo /\ [][NextExemplo]_vars

-----------------------------------------------------------------------------
(* core/analytics_processor.py: delivery of the alerts to the list         *)

\* most enviar_alertas_sharepoint calls of a run of the model
MaxEnvios == 2

\* sp_list.items.select(["Title"]).top(5000): the items one query returns
TopItens == 5000

\* existing_titles: the titles of the items the query returns, which are the
\* first TopItens items of the list in the order they were added
existing_titles(antigos, lista) ==
    { lista[i].Title : i \in { k \in DOMAIN lista : antigos + k <= TopItens } }

\* df_alertas["Titulo"].iloc[-1]
ultimo_titulo(alertas) == alertas[Len(alertas)].titulo

\* a batch that takes every alert row, whatever its title
df_ultimo_Todos(alertas) == alertas

\* df_alertas[df_alertas["Titulo"] == ultimo_titulo]
df_ultimo(alertas) ==
    LET DoUltimo(a) == a.titulo = ultimo_titulo(alertas)
    IN  SelectSeq(alertas, DoUltimo)

\* the item added for one alert row; envio is not a column of the list, it
\* records which call added the item
ItemDaLinha(row, envio) ==
    [Title |-> row.titulo,
     Placa |-> row.placa,
     PontodeInteresse |-> row.ponto_de_interesse,
     Data_Hora_Entrada |-> row.data_hora_entrada,
     Tempo |-> row.tempo,
     Tipo_Alerta |-> row.nivel,
     Status |-> "Pendente",
     envio |-> envio]

\* the items added by a call whose first n add_item requests succeed
ItensEnviados(alertas, n, envio) ==
    [k \in 1 .. n |-> ItemDaLinha(df_ultimo(alertas)[k], envio)]

\* enviar_alertas_sharepoint(df_alertas).  falha_consulta: the connection or
\* the query of the existing titles raises; n: the number of add_item
\* requests that succeed before one raises (all of them when n is the size
\* of the batch)
enviar_alertas_sharepoint(falha_consulta, n) ==
    /\ pc = "alertas"
    /\ envios < MaxEnvios
    /\ IF Len(df_alertas) = 0
       THEN /\ ~ falha_consulta /\ n = 0
            /\ retorno' = TRUE
            /\ lista_sp' = lista_sp
       ELSE IF falha_consulta
       THEN /\ n = 0
            /\ retorno' = FALSE
            /\ lista_sp' = lista_sp
       ELSE IF ultimo_titulo(df_alertas) \in existing_titles(lista_antigos, lista_sp)
       THEN /\ n = 0
            /\ retorno' = TRUE
            /\ lista_sp' = lista_sp
       ELSE /\ n <= Len(df_ultimo(df_alertas))
            /\ lista_sp' = lista_sp \o ItensEnviados(df_alertas, n, envios + 1)
            /\ retorno' = (n = Len(df_ultimo(df_alertas)))
    /\ envios' = envios + 1
    /\ pc' = "sentinela"
    /\ UNCHANGED <<df, df_ag, poi_arg, eventos, df_contagem, hoje, agora,
                   resumo_hora_sp, candles_sp, grupo_arg, threshold_arg,
                   df_alertas, lista_antigos, vars_arquivo, df_traj, vars_ciclo, vars_http, vars_retry>>

EnviarAlertas ==
    \E falha_consulta \in BOOLEAN, n \in 0 .. Cardinality(Veiculos) :
        enviar_alertas_sharepoint(falha_consulta, n)

\* the stored series of the delivery runs: the group 'Parada Operacional'
\* holds V1 and V2 in the hours of H
SeriesEntrega ==
    { LinhasSerie([h \in HorasSerie(4) |->
          IF h \in H
          THEN { <<"Buffer frotas", {"V1"}>>, <<"Posto Mutum", {"V2"}>> }
          ELSE {}]) :
      H \in { { JanelaInicio(4) + 1 },
              { JanelaInicio(4) + 1, JanelaInicio(4) + 2 } } }

\* the number of older items the list may hold when the run starts
ListasAntigas == { 0, TopItens - 1, TopItens }

InitEntrega ==
    /\ pc = "sentinela"
    /\ df = << >>
    /\ df_ag = << >>
    /\ InitComum
    /\ resumo_hora_sp \in SeriesEntrega
    /\ candles_sp = HistoricoCandles(4)
    /\ lista_antigos \in ListasAntigas
    /\ lista_sp = << >>
    /\ envios = 0
    /\ InitSemArquivo
    /\ df_traj = << >>
    /\ InitSemCiclo
    /\ InitSemHttp
    /\ InitSemRetry

\* _processar_sistema_alertas: detection, then delivery
NextEntrega == IdentificarDesvios \/ EnviarAlertas

SpecEntrega == InitEntrega /\ [][NextEntrega]_vars

-----------------------------------------------------------------------------
(* The refresh of the stored series: gerar_candles_poi for a POI, then     *)
(* atualizar_candles with what it returned.  The stored workbook is shared *)
(* with its readers, so the removal of the old file and the upload of the  *)
(* new one are two steps.                                                  *)

\* the body of the loop over pois_candles after gerar_candles_poi, up to and
\* including the removal of the old file in salvar_arquivo_reports
atualizar_candles(mes, falha_c, falha_rh, falha_r, falha_pasta, falha_delete) ==
    /\ pc = "candles"
    /\ chamada_candles.n < MaxChamadas
    /\ IF Len(eventos) = 0
       THEN /\ ~ (falha_c \/ falha_rh \/ falha_r \/ falha_pasta \/ falha_delete)
            /\ pc' = "agrupado"
            /\ UNCHANGED <<retorno, vars_arquivo>>
       ELSE /\ chamada_candles' =
                [n |-> chamada_candles.n + 1, poi |-> poi_arg, mes |-> mes,
                 eventos_novos |-> eventos, resumo_novos |-> df_contagem,
                 antes |-> arquivo_reports,
                 buffer |-> BufferCandles(arquivo_reports, eventos, df_contagem,
                                          poi_arg, mes, falha_c, falha_rh, falha_r)]
            /\ IF falha_pasta
               THEN /\ ~ falha_delete
                    /\ retorno' = FALSE
                    /\ pc' = "agrupado"
                    /\ arquivo_reports' = arquivo_reports
               ELSE /\ arquivo_reports' = RemoverArquivoAntigo(arquivo_reports, falha_delete)
                    /\ pc' = "upload"
                    /\ retorno' = "nenhum"
    /\ UNCHANGED <<df, df_ag, poi_arg, eventos, df_contagem, hoje, agora,
                   resumo_hora_sp, candles_sp, grupo_arg, threshold_arg,
                   df_alertas, vars_entrega, df_traj, vars_ciclo, vars_http, vars_retry>>

\* mes_atual = datetime.now().month, ano_atual = datetime.now().year
AtualizarCandles ==
    \E falha_c \in BOOLEAN, falha_rh \in BOOLEAN, falha_r \in BOOLEAN,
       falha_pasta \in BOOLEAN, falha_delete \in BOOLEAN :
        atualizar_candles(MesAno(agora), falha_c, falha_rh, falha_r,
                          falha_pasta, falha_delete)

\* pasta_reports.upload_file(...).execute_query() and the return of
\* salvar_arquivo_reports
upload_file(falha_upload) ==
    /\ pc = "upload"
    /\ IF falha_upload
       THEN arquivo_reports' = arquivo_reports /\ retorno' = FALSE
       ELSE arquivo_reports' = chamada_candles.buffer /\ retorno' = TRUE
    /\ pc' = "agrupado"
    /\ UNCHANGED <<df, df_ag, poi_arg, eventos, df_contagem, hoje, agora,
                   resumo_hora_sp, candles_sp, grupo_arg, threshold_arg,
                   df_alertas, vars_entrega, chamada_candles, df_traj, vars_ciclo, vars_http, vars_retry>>

UploadFile == \E falha_upload \in BOOLEAN : upload_file(falha_upload)

\* instants around the turn of the month: 22:30 and 23:30 of its last day
TemposReports == { TicksMes - 3, TicksMes - 1 }

\* the stays of the treated tables of the refresh, of one vehicle
StaysReports ==
    { StayRow("V1", p, e, x, ObsVazia) :
        p \in POIsVisita, e \in TemposReports, x \in TemposReports }

\* treated tables: sorted, without two consecutive stays of one (vehicle, POI)
TabelasReports ==
    { d \in UNION { [1 .. n -> { r \in StaysReports : r.entrada <= r.saida }] :
                      n \in 1 .. MaxStays } :
        /\ \A i \in 1 .. Len(d) - 1 : OrdemTabela(d[i], d[i + 1])
        /\ \A i \in 1 .. Len(d) - 1 :
              d[i].veiculo # d[i + 1].veiculo \/ d[i].ponto # d[i + 1].ponto }

\* the workbook atualizar_resumo_diario leaves: one row of the sheet "Resumo"
ArquivoSoResumo ==
    BufferExcel(<<[data |-> Data(TicksMes - 1), unidade |-> unidade]>>, << >>, << >>)

\* datetime.now() of the run: the last evening of the month or the next morning
InstantesReports == { TicksMes - 1, TicksMes + 18 }

InitReports ==
    /\ pc = "agrupado"
    /\ df = << >>
    /\ df_ag \in TabelasReports
    /\ resumo_hora_sp = {}
    /\ candles_sp = {}
    /\ retorno = "nenhum"
    /\ poi_arg = ""
    /\ eventos = << >>
    /\ df_contagem = << >>
    /\ agora \in InstantesReports
    /\ hoje = Data(agora)
    /\ grupo_arg = ""
    /\ threshold_arg = 0
    /\ df_alertas = << >>
    /\ InitSemEntrega
    /\ arquivo_reports \in { ArquivoVazio, ArquivoSoResumo }
    /\ chamada_candles = SemChamada
    /\ df_traj = << >>
    /\ InitSemCiclo
    /\ InitSemHttp
    /\ InitSemRetry

NextReports == GerarCandles \/ AtualizarCandles \/ UploadFile

SpecReports == InitReports /\ [][NextReports]_vars

-----------------------------------------------------------------------------
(* The daily summary: atualizar_resumo_diario on the workbook.             *)

\* calls of atualizar_resumo_diario in a run
MaxResumos == 3

\* the units a full cycle hands to atualizar_resumo_diario
UnidadesResumo == {"RRP", "TLS"}

\* data in df_existente['Data'].values
DataJaExiste(linhas, data) == \E k \in DOMAIN linhas : linhas[k].data = data

\* nova_linha: the row of the unit for the date
NovaLinhaResumo(un, data) == [data |-> data, unidade |-> un]

\* df_resultado of atualizar_resumo_diario
ResumoResultado(df_existente, un, data) ==
    IF df_existente.none THEN << NovaLinhaResumo(un, data) >>
    ELSE Append(df_existente.linhas, NovaLinhaResumo(un, data))

\* salvar_arquivo_reports(df_resumo, df_candles, df_resumo_hora): the folder
\* after the call and its return; a sheet that was not handed over is not
\* written
salvar_arquivo_reports(arquivo, df_resumo, df_candles, df_resumo_hora, falha_pasta, falha_delete, falha_upload) ==
    IF falha_pasta THEN [arquivo |-> arquivo, retorno |-> FALSE]
    ELSE IF falha_upload
         THEN [arquivo |-> RemoverArquivoAntigo(arquivo, falha_delete),
               retorno |-> FALSE]
         ELSE [arquivo |-> BufferExcel(df_resumo, df_candles, df_resumo_hora),
               retorno |-> TRUE]

\* atualizar_resumo_diario(unidade, data, ...): the whole call
atualizar_resumo_diario(un, data, falha_r, falha_pasta, falha_delete, falha_upload) ==
    /\ pc = "agrupado"
    /\ Len(chamadas) < MaxResumos
    /\ chamadas' = Append(chamadas, <<"atualizar_resumo_diario", un, data>>)
    /\ LET df_existente == carregar_arquivo_reports(arquivo_reports, falha_r)
       IN  IF ~ df_existente.none /\ DataJaExiste(df_existente.linhas, data)
           THEN /\ ~ (falha_pasta \/ falha_delete \/ falha_upload)
                /\ retorno' = TRUE
                /\ arquivo_reports' = arquivo_reports
           ELSE LET r == salvar_arquivo_reports(
                             arquivo_reports,
                             ResumoResultado(df_existente, un, data), << >>, << >>,
                             falha_pasta, falha_delete, falha_upload)
                IN  /\ falha_pasta => ~ (falha_delete \/ falha_upload)
                    /\ retorno' = r.retorno
                    /\ arquivo_reports' = r.arquivo
    /\ UNCHANGED <<pc, df, df_ag, poi_arg, eventos, df_contagem, hoje, agora,
                   resumo_hora_sp, candles_sp, grupo_arg, threshold_arg,
                   df_alertas, vars_entrega, chamada_candles, df_traj,
                   pc_ciclo, modo_execucao, scraper, unidades, ciclo, fila,
                   sucessos, falhas, resultados, cenario_ext, retorno_ciclo,
                   pasta_download,
                   vars_http, vars_retry>>

\* data = ontem in processar_analytics_completo; a run of the next day hands
\* over the next date
AtualizarResumoDiario ==
    \E un \in UnidadesResumo, data \in {hoje - 1, hoje},
       falha_r \in BOOLEAN, falha_pasta \in BOOLEAN,
       falha_delete \in BOOLEAN, falha_upload \in BOOLEAN :
        atualizar_resumo_diario(un, data, falha_r, falha_pasta, falha_delete,
                                falha_upload)

\* a workbook that already holds a candle row and an hourly row
ArquivoComSeries ==
    BufferExcel(<< >>,
                << [veiculo |-> "V1", data_evento |-> 0, evento |-> "entrada",
                    veiculos_no_poi |-> {"V1"}, poi |-> "Descarga Inocencia"] >>,
                << [hora |-> Hora1, inicio |-> 0, final |-> 1, maximo |-> 1,
                    minimo |-> 0, poi |-> "Descarga Inocencia",
                    veiculos_no_poi |-> {"V1"}] >>)

InitResumo ==
    /\ pc = "agrupado"
    /\ df = << >>
    /\ df_ag = << >>
    /\ resumo_hora_sp = {}
    /\ candles_sp = {}
    /\ InitComum
    /\ InitSemEntrega
    /\ arquivo_reports \in { ArquivoVazio, ArquivoComSeries }
    /\ chamada_candles = SemChamada
    /\ df_traj = << >>
    /\ InitSemCiclo
    /\ InitSemHttp
    /\ InitSemRetry

NextResumo == AtualizarResumoDiario

SpecResumo == InitResumo /\ [][NextResumo]_vars

-----------------------------------------------------------------------------
(* Step 6 of processar_relatorio_c09: the trajectories of a treated table. *)

\* rows of a treated table of the trajectory runs
MaxTraj == 3

\* one POI of each group the scan tells apart
POIsTrajeto ==
    {"Carregamento RRp", "Carregamento Fabrica RRP", "Desc. INO",
     "Terminal Inocencia", "Oficina JSL", "Buffer frotas"}

\* (entry, exit) of the stays: at 0:00, from 0:00 to 1:00 and at 9:00, so
\* that trajectories of 0 h, 8 h and 9 h occur
PeriodosTrajeto == { <<0, 0>>, <<0, 2>>, <<18, 18>> }

StaysTrajeto ==
    { StayRow(v, p, t[1], t[2], ObsVazia) :
        v \in Veiculos, p \in POIsTrajeto, t \in PeriodosTrajeto }

\* the tables _agrupar_registros_consecutivos returns: in the order of the
\* report, without two consecutive stays of one (vehicle, POI)
TabelaTrajeto(d) ==
    /\ OrdenadoPorVeiculoEntrada(d)
    /\ \A i \in 1 .. Len(d) - 1 :
          d[i].veiculo # d[i + 1].veiculo \/ d[i].ponto # d[i + 1].ponto

InitTrajetos ==
    /\ pc = "agrupado"
    /\ df = << >>
    /\ \E n \in 1 .. MaxTraj : df_ag \in [1 .. n -> StaysTrajeto]
    /\ TabelaTrajeto(df_ag)
    /\ resumo_hora_sp = {}
    /\ candles_sp = {}
    /\ InitComum
    /\ InitSemEntrega
    /\ InitSemArquivo
    /\ df_traj = << >>
    /\ InitSemCiclo
    /\ InitSemHttp
    /\ InitSemRetry

\* df_com_trajetos = self._calcular_trajetos(df_agrupado)
calcular_trajetos ==
    /\ pc = "agrupado"
    /\ df_traj' = _calcular_trajetos(df_ag)
    /\ pc' = "trajetos"
    /\ UNCHANGED <<df, df_ag, poi_arg, eventos, df_contagem, hoje, agora,
                   resumo_hora_sp, candles_sp, grupo_arg, threshold_arg,
                   df_alertas, vars_entrega, retorno, vars_arquivo,
                   vars_ciclo, vars_http, vars_retry>>

NextTrajetos == calcular_trajetos

SpecTrajetos == InitTrajetos /\ [][NextTrajetos]_vars

-----------------------------------------------------------------------------
(* Properties of the stay aggregation (specification Spec).                *)

\* a record opens a maximal run when it is the first one or its
\* (vehicle, POI) differs from the record right before it
AbreRun(d, i) ==
    i = 1 \/ d[i].veiculo # d[i - 1].veiculo \/ d[i].ponto # d[i - 1].ponto

Aberturas(d) == { i \in 1 .. Len(d) : AbreRun(d, i) }

\* the last record of the run opened at i
FimDoRun(d, i) ==
    Minimo({ k \in Aberturas(d) : k > i } \cup { Len(d) + 1 }) - 1

\* the opening record of the k-th run
AberturaK(d, k) ==
    CHOOSE i \in Aberturas(d) : Cardinality({ m \in Aberturas(d) : m < i }) = k - 1

\* the (vehicle, POI, entry, exit) columns of a table
Colunas(d) ==
    [i \in DOMAIN d |-> <<d[i].veiculo, d[i].ponto, d[i].entrada, d[i].saida>>]

SemRepeticaoConsecutiva(d) == Aberturas(d) = 1 .. Len(d)

Agrupado == pc \in {"agrupado", "candles"} /\ Len(df) > 0

\* the runs of the report whose POI is poi and that hold no visit with a
\* "still present" observation
RunsComSaida(d, poi) ==
    { i \in Aberturas(d) :
        /\ d[i].ponto = poi
        /\ \A k \in i .. FimDoRun(d, i) : ~ veiculo_ainda_esta_no_poi(d[k].obs) }

NumSaidas(ev) == Cardinality({ k \in DOMAIN ev : ev[k].evento = "saida" })

\* C1 (as claimed): false-exit suppression.  After the aggregation and the
\* projection of a POI, the departure events are only those of the stays none
\* of whose raw visits carries a "still present" observation: no stay that
\* contains such a visit, first of its run or not, yields a departure, so
\* there are at most as many departures as runs free of such a visit.
C1_FalseExitSuppression ==
    (pc = "candles" /\ Len(df) > 0) =>
        NumSaidas(eventos) <= Cardinality(RunsComSaida(df, poi_arg))

\* C6: stay merge.  The aggregation produces exactly one stay per maximal run
\* of consecutive records sharing (vehicle, POI), in order; the stay has the
\* run's vehicle and POI, the entry of the run's first record and the exit of
\* its last record.
C6_StayMerge ==
    Agrupado =>
        /\ Len(df_ag) = Cardinality(Aberturas(df))
        /\ \A k \in DOMAIN df_ag :
              LET i == AberturaK(df, k)
              IN  /\ df_ag[k].veiculo = df[i].veiculo
                  /\ df_ag[k].ponto = df[i].ponto
                  /\ df_ag[k].entrada = df[i].entrada
                  /\ df_ag[k].saida = df[FimDoRun(df, i)].saida

\* a report with a run of several records followed by another run
C6_Witness ==
    /\ pc = "agrupado"
    /\ Len(df) = 3
    /\ Len(df_ag) = 2
    /\ FimDoRun(df, 1) = 2
    /\ df[1].saida # df[2].saida

\* C7: stay merge idempotence.  A report without consecutive records of the
\* same vehicle and POI comes out with the same (vehicle, POI, entry, exit)
\* rows, and aggregating the aggregated table again changes nothing.
C7_MergeIdempotent ==
    Agrupado =>
        /\ SemRepeticaoConsecutiva(df) => Colunas(df_ag) = Colunas(df)
        /\ Colunas(_agrupar_registros_consecutivos(df_ag)) = Colunas(df_ag)

\* an already merged report of three visits of one vehicle, A, B, A
C7_Witness ==
    /\ pc = "agrupado"
    /\ Len(df) = 3
    /\ SemRepeticaoConsecutiva(df)
    /\ df[1].veiculo = df[3].veiculo
    /\ df[1].ponto = df[3].ponto

-----------------------------------------------------------------------------
(* Properties of the event projection (specification SpecCandles).         *)

Projetado == pc = "candles"

\* the events are in ascending order of their timestamp
EventosOrdenados(ev) ==
    \A k \in 1 .. Len(ev) - 1 : ev[k].data_evento <= ev[k + 1].data_evento

\* the snapshot before the k-th event
SnapshotAntes(ev, k) == IF k = 1 THEN {} ELSE ev[k - 1].veiculos_no_poi

\* C4: occupancy conservation.  In the hourly series of one POI the count at
\* the end of bucket k is the count at the start of bucket k+1, and the first
\* bucket starts at 0.
C4_OccupancyConservation ==
    (Projetado /\ Len(df_contagem) > 0) =>
        /\ df_contagem[1].inicio = 0
        /\ \A k \in 1 .. Len(df_contagem) - 1 :
              df_contagem[k].final = df_contagem[k + 1].inicio

\* a series of several buckets whose count moves inside the first two
C4_Witness ==
    /\ Projetado
    /\ Len(df_contagem) >= 2
    /\ df_contagem[1].final > 0
    /\ df_contagem[1].minimo < df_contagem[1].final
    /\ df_contagem[2].final # df_contagem[2].inicio

\* C5: event snapshot consistency.  Along the sorted events the snapshot after
\* an arrival is the previous snapshot plus the vehicle, the snapshot after a
\* departure is the previous snapshot minus the vehicle, and a departure of a
\* vehicle that is not in the set leaves the set as it was.
C5_SnapshotConsistency ==
    Projetado =>
        /\ EventosOrdenados(eventos)
        /\ \A k \in DOMAIN eventos :
              LET antes == SnapshotAntes(eventos, k)
                  v == eventos[k].veiculo
              IN  /\ eventos[k].evento = "entrada" =>
                        eventos[k].veiculos_no_poi = antes \cup {v}
                  /\ eventos[k].evento = "saida" =>
                        eventos[k].veiculos_no_poi = antes \ {v}
                  /\ (eventos[k].evento = "saida" /\ v \notin antes) =>
                        eventos[k].veiculos_no_poi = antes

\* a departure of an absent vehicle, and a departure of a present one
C5_Witness ==
    /\ Projetado
    /\ \E k \in DOMAIN eventos :
          /\ eventos[k].evento = "saida"
          /\ eventos[k].veiculo \notin SnapshotAntes(eventos, k)
    /\ \E k \in DOMAIN eventos :
          /\ eventos[k].evento = "saida"
          /\ eventos[k].veiculo \in SnapshotAntes(eventos, k)
          /\ SnapshotAntes(eventos, k) # {eventos[k].veiculo}

\* gerar_candles_poi has returned events
ComEventos == Projetado /\ Len(eventos) > 0

InstantesDe(ev) == { ev[k].data_evento : k \in DOMAIN ev }

\* the full hour at or before t, and the full hour at or after t
HoraCheiaAntes(t) == t - (t % Hora1)
HoraCheiaDepois(t) == IF t % Hora1 = 0 THEN t ELSE t - (t % Hora1) + Hora1

\* C21 (as claimed): hourly timeline.  When gerar_candles_poi retains at
\* least one event it returns hourly samples, the first one for the hour that
\* begins at the hour-floor of the first event, the last one ending at the
\* hour-ceiling of the last event, with end labels one hour apart, also when
\* every event lies exactly on an hour boundary.
C21_HourlyTimeline ==
    ComEventos =>
        /\ Len(df_contagem) >= 1
        /\ df_contagem[1].hora = HoraCheiaAntes(Minimo(InstantesDe(eventos))) + Hora1
        /\ df_contagem[Len(df_contagem)].hora =
              HoraCheiaDepois(Maximo(InstantesDe(eventos)))
        /\ \A k \in 1 .. Len(df_contagem) - 1 :
              df_contagem[k + 1].hora = df_contagem[k].hora + Hora1

\* the hourly samples whose bucket [end - 1 h, end) holds the instant t
BucketsDe(t) ==
    { k \in DOMAIN df_contagem :
        df_contagem[k].hora - Hora1 <= t /\ t < df_contagem[k].hora }

NumEventos(ev, tipo) == Cardinality({ k \in DOMAIN ev : ev[k].evento = tipo })

\* C22 (as claimed): every retained event is replayed exactly once.  Each
\* event falls in exactly one bucket of the hourly timeline, and the count at
\* the end of the last hourly sample is the number of arrivals minus the
\* number of departures of the whole event list.
C22_EveryEventReplayed ==
    ComEventos =>
        /\ \A k \in DOMAIN eventos :
              Cardinality(BucketsDe(eventos[k].data_evento)) = 1
        /\ Len(df_contagem) >= 1
        /\ df_contagem[Len(df_contagem)].final =
              NumEventos(eventos, "entrada") - NumEventos(eventos, "saida")

\* C23: bucket min/max.  In every hourly sample the minimum is at most the
\* count at the start and the count at the end, the maximum is at least both,
\* and a bucket without events has all four equal.
C23_BucketMinMax ==
    Projetado =>
        \A k \in DOMAIN df_contagem :
            LET l == df_contagem[k]
            IN  /\ l.minimo <= l.inicio /\ l.inicio <= l.maximo
                /\ l.minimo <= l.final /\ l.final <= l.maximo
                /\ (\A j \in DOMAIN eventos : k \notin BucketsDe(eventos[j].data_evento))
                      => /\ l.minimo = l.maximo
                         /\ l.inicio = l.final
                         /\ l.minimo = l.inicio

\* a series with a bucket without events that starts with a vehicle inside
\* and a bucket whose count rises above its start and falls back below it
C23_Witness ==
    /\ Projetado
    /\ \E k \in DOMAIN df_contagem :
          /\ \A j \in DOMAIN eventos : k \notin BucketsDe(eventos[j].data_evento)
          /\ df_contagem[k].inicio > 0
    /\ \E k \in DOMAIN df_contagem :
          /\ df_contagem[k].maximo > df_contagem[k].inicio
          /\ df_contagem[k].maximo > df_contagem[k].final

\* C35 (as claimed): count agrees with membership.  In every hourly sample
\* the count at the end of the bucket is the number of plates of the
\* membership snapshot at the end of the bucket, and no count of the sample
\* is negative, whatever the stays are.
C35_CountAgreesWithMembership ==
    Projetado =>
        \A k \in DOMAIN df_contagem :
            /\ df_contagem[k].final = Cardinality(df_contagem[k].veiculos_no_poi)
            /\ df_contagem[k].inicio >= 0
            /\ df_contagem[k].final >= 0
            /\ df_contagem[k].minimo >= 0

\* C30 (as claimed): determinism under timestamp ties.  The events with
\* their snapshots and the hourly samples returned for a POI are the ones
\* every order of the events that share a timestamp gives.
C30_TieDeterminism ==
    (Projetado /\ Len(FiltrarPoi(df_ag, poi_arg)) > 0) =>
        \A ev \in SortValues(EventosConcat(FiltrarPoi(df_ag, poi_arg))) :
            /\ eventos = EventosComSnapshot(ev, poi_arg)
            /\ df_contagem = ResumoPorHora(ev, poi_arg)

-----------------------------------------------------------------------------
(* Properties of the deviation detector (specification SpecDesvios).       *)

Detectado == pc = "alertas"

\* the hours the alerts of a table were raised for
HorasDe(alertas) == { alertas[k].data_hora_desvio : k \in DOMAIN alertas }

HorasAlerta == HorasDe(df_alertas)

\* the levels the alerts of hour h carry
NiveisDaHora(h) ==
    { df_alertas[k].nivel[2] : k \in { i \in DOMAIN df_alertas :
                                         df_alertas[i].data_hora_desvio = h } }

\* the alert hour right before h, << >> when h is the first one
HoraAnterior(h) ==
    LET antes == { x \in HorasAlerta : x < h }
    IN  IF antes = {} THEN << >> ELSE << Maximo(antes) >>

\* the level the rule gives to hour h, from the level of the hour before it
NivelEsperado(h) ==
    LET ant == HoraAnterior(h)
    IN  IF ant = << >> THEN 1
        ELSE IF h - ant[1] > Hora1 THEN 1
        ELSE LET n == CHOOSE x \in NiveisDaHora(ant[1]) : TRUE
             IN  IF n + 1 <= 4 THEN n + 1 ELSE 4

\* C2: escalation transition rule.  With the qualifying hours taken in
\* ascending order, an hour gets level 1 when it has no previous qualifying
\* hour or the gap to it is strictly greater than one hour, and otherwise
\* min(previous level + 1, 4); hours [H, H+2h] get [1, 1] and hours
\* [H, H+0.5h, H+1h] get [1, 2, 3].
C2_EscalationRule ==
    Detectado =>
        /\ \A h \in HorasAlerta : NiveisDaHora(h) = { NivelEsperado(h) }
        /\ \A h \in HorasAlerta :
              /\ HorasAlerta = { h, h + 2 * Hora1 } =>
                    /\ NiveisDaHora(h) = {1}
                    /\ NiveisDaHora(h + 2 * Hora1) = {1}
              /\ HorasAlerta = { h, h + (Hora1 \div 2), h + Hora1 } =>
                    /\ NiveisDaHora(h) = {1}
                    /\ NiveisDaHora(h + (Hora1 \div 2)) = {2}
                    /\ NiveisDaHora(h + Hora1) = {3}

\* a run of three qualifying hours whose gaps are exactly one hour
C2_Witness ==
    /\ Detectado
    /\ \E h \in HorasAlerta :
          /\ HorasAlerta = { h, h + Hora1, h + 2 * Hora1 }
          /\ NiveisDaHora(h) = {1}
          /\ NiveisDaHora(h + Hora1) = {2}
          /\ NiveisDaHora(h + 2 * Hora1) = {3}

\* C3: escalation level range.  Every alert carries a level in 1..4 with the
\* label 'Tratativa N<level>' and the same level in its title; the level
\* stays at 4 however long the run of qualifying hours is, and 0 is never
\* emitted.
C3_LevelRange ==
    Detectado =>
        \A k \in DOMAIN df_alertas :
            /\ df_alertas[k].nivel[2] \in 1 .. 4
            /\ df_alertas[k].nivel = <<"Tratativa N", df_alertas[k].nivel[2]>>
            /\ df_alertas[k].titulo.nivel = df_alertas[k].nivel[2]

\* a run long enough for the cap to act: a level 4 right after a level 4
C3_Witness ==
    /\ Detectado
    /\ \E h \in HorasAlerta :
          /\ HoraAnterior(h) # << >>
          /\ h - HoraAnterior(h)[1] <= Hora1
          /\ NiveisDaHora(HoraAnterior(h)[1]) = {4}
          /\ NiveisDaHora(h) = {4}

\* the stored rows of the group's POIs inside the lookback window
LinhasDoGrupoNaJanela ==
    { l \in resumo_hora_sp :
        /\ l.poi \in pois_do_grupo(grupo_arg)
        /\ Data(l.hora) \in Dias(hoje) }

\* the union of the stored membership snapshots of the group's POIs at hour h
UniaoDaHora(h) ==
    UNION { l.veiculos_no_poi : l \in { x \in LinhasDoGrupoNaJanela : x.hora = h } }

\* the alerts come hour by hour, in ascending order of the hour
HorasEmOrdem ==
    \A i, j \in DOMAIN df_alertas :
        i < j => df_alertas[i].data_hora_desvio <= df_alertas[j].data_hora_desvio

\* C9 (as claimed): detector soundness and completeness.  The escalated hours
\* are exactly the hours of the lookback-filtered series whose union of
\* membership snapshots over the group's POIs has at least threshold members,
\* a vehicle counted once; the hours come in ascending order, each once.
C9_DetectorExact ==
    Detectado =>
        /\ HorasAlerta =
              { h \in { l.hora : l \in LinhasDoGrupoNaJanela } :
                  Cardinality(UniaoDaHora(h)) >= threshold_arg }
        /\ HorasEmOrdem

\* the thresholds the monotonicity is compared over
ThresholdsComparados == 0 .. 3

HorasQualificadas(t) == HorasDe(Alertas(resumo_hora_sp, grupo_arg, t, hoje))

\* C10: threshold monotonicity.  For the same stored series and group, with
\* t1 <= t2 the hours found with threshold t2 are among the hours found with
\* threshold t1.
C10_ThresholdMonotone ==
    Detectado =>
        LET achadas == << HorasQualificadas(0), HorasQualificadas(1),
                          HorasQualificadas(2), HorasQualificadas(3) >>
        IN  /\ HorasAlerta = achadas[threshold_arg + 1]
            /\ \A t1, t2 \in ThresholdsComparados :
                  t1 <= t2 => achadas[t2 + 1] \subseteq achadas[t1 + 1]

\* a series where raising the threshold removes some hours and keeps others
C10_Witness ==
    /\ Detectado
    /\ threshold_arg = 1
    /\ HorasQualificadas(2) # {}
    /\ HorasQualificadas(2) # HorasAlerta
    /\ HorasQualificadas(3) = {}

\* the alert rows of hour h that carry plate v
LinhasDaPlaca(h, v) ==
    { k \in DOMAIN df_alertas :
        df_alertas[k].data_hora_desvio = h /\ df_alertas[k].placa = v }

\* C11 (as claimed): one alert per vehicle per qualifying hour.  Every
\* qualifying hour has exactly one alert row for each vehicle of the hour's
\* union of stored membership snapshots and none for any other vehicle; the
\* rows of one hour share one title and one level label, and rows of
\* different hours have different titles.
C11_OneAlertPerVehicle ==
    Detectado =>
        /\ \A h \in HorasAlerta :
              \A v \in UniaoDaHora(h) : Cardinality(LinhasDaPlaca(h, v)) = 1
        /\ \A k \in DOMAIN df_alertas :
              df_alertas[k].placa \in UniaoDaHora(df_alertas[k].data_hora_desvio)
        /\ \A i, j \in DOMAIN df_alertas :
              IF df_alertas[i].data_hora_desvio = df_alertas[j].data_hora_desvio
              THEN /\ df_alertas[i].titulo = df_alertas[j].titulo
                   /\ df_alertas[i].nivel = df_alertas[j].nivel
              ELSE df_alertas[i].titulo # df_alertas[j].titulo

\* the level the escalation rule gives to hour h of the set of hours H
RECURSIVE NivelPelasHoras(_, _)
NivelPelasHoras(H, h) ==
    LET antes == { x \in H : x < h }
    IN  IF antes = {} THEN 1
        ELSE IF h - Maximo(antes) > Hora1 THEN 1
        ELSE LET n == NivelPelasHoras(H, Maximo(antes)) + 1
             IN  IF n <= 4 THEN n ELSE 4

\* the title made of unit, group, level and hour alone
TituloPelasPartes(u, grupo, n, h) ==
    [unidade |-> u,
     grupo_clean |-> CASE grupo = "Parada Operacional" -> "ParadaOperacional"
                       [] OTHER -> grupo,
     nivel |-> n,
     data_str |-> h \div TicksDia,
     hora_str |-> h % TicksDia]

\* C14: title determinism.  The levels and titles of the alerts are a
\* function of the unit, the group and the list of qualifying hours alone:
\* every execution on the same unit, group and hours gives the same level and
\* the same title to each hour, and so the same title to the latest batch.
C14_TitleDeterminism ==
    Detectado =>
        LET H == HorasAlerta
            titulos == [h \in H |->
                          TituloPelasPartes("RRP", grupo_arg, NivelPelasHoras(H, h), h)]
        IN  /\ \A k \in DOMAIN df_alertas :
                  LET t == titulos[df_alertas[k].data_hora_desvio]
                  IN  /\ df_alertas[k].nivel = <<"Tratativa N", t.nivel>>
                      /\ df_alertas[k].titulo = t
            /\ Len(df_alertas) > 0 =>
                  df_alertas[Len(df_alertas)].titulo = titulos[Maximo(H)]

\* alerts of three hours, the latest one at level 3, with two plates in it
C14_Witness ==
    /\ Detectado
    /\ Cardinality(HorasAlerta) >= 3
    /\ NiveisDaHora(Maximo(HorasAlerta)) = {3}
    /\ Len(df_alertas) >= 2
    /\ df_alertas[Len(df_alertas)].titulo = df_alertas[Len(df_alertas) - 1].titulo
    /\ df_alertas[Len(df_alertas)].placa # df_alertas[Len(df_alertas) - 1].placa

\* the stored arrivals of the alert's vehicle at a POI of the alert's group,
\* not later than the deviation
ChegadasAntes(alerta) ==
    { e \in candles_sp :
        /\ e.evento = "entrada"
        /\ e.veiculo = alerta.placa
        /\ \E k \in DOMAIN config_pois :
              /\ config_pois[k].grupo = alerta.grupo
              /\ config_pois[k].ponto_interesse = e.poi
        /\ e.data_evento <= alerta.data_hora_desvio }

\* C20: alert enrichment.  Every alert gets as entry timestamp the latest
\* stored arrival of its vehicle, over all POIs of its group, that is not
\* later than the deviation; without such an arrival the entry timestamp and
\* the dwell time stay null; the stored event history is not modified.
C20_AlertEnrichment ==
    Detectado =>
        /\ \A k \in DOMAIN df_alertas :
              LET chegadas == ChegadasAntes(df_alertas[k])
              IN  IF chegadas = {}
                  THEN /\ df_alertas[k].data_hora_entrada = << >>
                       /\ df_alertas[k].tempo = << >>
                  ELSE /\ df_alertas[k].data_hora_entrada # << >>
                       /\ \E e \in chegadas :
                             e.data_evento = df_alertas[k].data_hora_entrada[1]
                       /\ \A e \in chegadas :
                             e.data_evento <= df_alertas[k].data_hora_entrada[1]
                       /\ df_alertas[k].tempo # << >>
        /\ candles_sp = HistoricoCandles(4)

\* one alert whose entry comes from before the lookback window, one whose
\* vehicle has a later arrival only, and one whose latest arrival is at
\* another POI of the group than its earliest
C20_Witness ==
    /\ Detectado
    /\ \E k \in DOMAIN df_alertas :
          /\ df_alertas[k].data_hora_entrada # << >>
          /\ df_alertas[k].data_hora_entrada[1] < JanelaInicio(hoje)
    /\ \E k \in DOMAIN df_alertas :
          /\ df_alertas[k].data_hora_entrada = << >>
          /\ \E e \in candles_sp :
                /\ e.evento = "entrada" /\ e.veiculo = df_alertas[k].placa
                /\ e.data_evento > df_alertas[k].data_hora_desvio
    /\ \E k \in DOMAIN df_alertas : Cardinality(ChegadasAntes(df_alertas[k])) >= 2

-----------------------------------------------------------------------------
(* Properties of the alert delivery (specification SpecEntrega).           *)

\* the titles of all the items of the list that the model follows
TitulosDaLista == { lista_sp[i].Title : i \in DOMAIN lista_sp }

\* C12 (as claimed): delivery gate.  When the title of the batch to deliver
\* is already in the delivered-alerts list, enviar_alertas_sharepoint adds no
\* row to the list.  (It then returns True unless a remote request raises.)
C12_DeliveryGate ==
    [][ ( /\ pc = "alertas" /\ pc' = "sentinela"
          /\ Len(df_alertas) > 0
          /\ ultimo_titulo(df_alertas) \in TitulosDaLista )
        => lista_sp' = lista_sp ]_vars

\* C13 (as claimed): at most one delivered batch per title.  After any
\* sequence of calls the list never holds the same (title, plate) row twice
\* and never holds rows of one title that two different calls added.
C13_OneBatchPerTitle ==
    \A i, j \in DOMAIN lista_sp :
        /\ (i # j /\ lista_sp[i].Title = lista_sp[j].Title)
              => lista_sp[i].Placa # lista_sp[j].Placa
        /\ lista_sp[i].Title = lista_sp[j].Title
              => lista_sp[i].envio = lista_sp[j].envio

\* the alert rows of the input that carry the title of its last row
LinhasDoUltimoTitulo ==
    SelectSeq(df_alertas, LAMBDA a : a.titulo = df_alertas[Len(df_alertas)].titulo)

\* C34: only the latest batch is delivered.  Every item one call of
\* enviar_alertas_sharepoint adds carries the title of the last alert row and
\* comes from the input row of that title at the same position; a call that
\* adds items and returns True adds all the rows of that title, and no row
\* of an earlier qualifying hour.
C34_OnlyLatestBatch ==
    [][ (pc = "alertas" /\ pc' = "sentinela" /\ Len(lista_sp') > Len(lista_sp))
        => LET n == Len(lista_sp') - Len(lista_sp)
               novo(k) == lista_sp'[Len(lista_sp) + k]
           IN  /\ SubSeq(lista_sp', 1, Len(lista_sp)) = lista_sp
               /\ n <= Len(LinhasDoUltimoTitulo)
               /\ \A k \in 1 .. n :
                     /\ novo(k).Title = df_alertas[Len(df_alertas)].titulo
                     /\ novo(k).Placa = LinhasDoUltimoTitulo[k].placa
               /\ retorno' = TRUE => n = Len(LinhasDoUltimoTitulo) ]_vars

\* a call that returned True for alert rows of two qualifying hours and
\* added the rows of the later hour only
C34_Witness ==
    /\ pc = "sentinela"
    /\ envios = 1
    /\ retorno = TRUE
    /\ Len(df_alertas) > Len(LinhasDoUltimoTitulo)
    /\ Len(lista_sp) = Len(LinhasDoUltimoTitulo)
    /\ Len(lista_sp) >= 2

\* C37 (as claimed): delivered batch completeness.  Once a call of
\* enviar_alertas_sharepoint over the alert rows has returned True, the list
\* holds a row for every vehicle of the batch of the last title, also when
\* an earlier call failed after adding a part of the batch.
C37_BatchCompleteness ==
    (pc = "sentinela" /\ envios >= 1 /\ retorno = TRUE /\ Len(df_alertas) > 0) =>
        \A k \in DOMAIN LinhasDoUltimoTitulo :
            \E i \in DOMAIN lista_sp :
                /\ lista_sp[i].Title = LinhasDoUltimoTitulo[k].titulo
                /\ lista_sp[i].Placa = LinhasDoUltimoTitulo[k].placa

-----------------------------------------------------------------------------
(* Properties of the stored series' refresh (specification SpecReports).   *)

\* the last atualizar_candles call has returned True
CandlesAtualizados ==
    pc = "agrupado" /\ chamada_candles.n > 0 /\ retorno = TRUE

\* how many rows of linhas are the row l
Ocorrencias(linhas, l) == Cardinality({ i \in DOMAIN linhas : linhas[i] = l })

\* the rows of linhas, each as often as in novos
ExatamenteOsNovos(linhas, novos) ==
    \A k \in DOMAIN novos : Ocorrencias(linhas, novos[k]) = Ocorrencias(novos, novos[k])

\* C15 (replace, not merge): after atualizar_candles(new events, new samples,
\* poi, mes, ano) has succeeded, the store holds every new row exactly as
\* often as the new rows do (no duplicate), and every stored row of that POI
\* and month is one of the new rows, in both sheets; a second call with the
\* same arguments therefore leaves the store as the first one did, also when
\* a new row carries an instant of another month than mes.
C15_ReplaceNotMerge ==
    CandlesAtualizados =>
        LET c == chamada_candles
        IN  /\ ExatamenteOsNovos(arquivo_reports.candles, c.eventos_novos)
            /\ ExatamenteOsNovos(arquivo_reports.resumo_hora, c.resumo_novos)
            /\ \A i \in DOMAIN arquivo_reports.candles :
                  LET l == arquivo_reports.candles[i]
                  IN  (l.poi = c.poi /\ MesAno(l.data_evento) = c.mes)
                          => \E k \in DOMAIN c.eventos_novos : c.eventos_novos[k] = l
            /\ \A i \in DOMAIN arquivo_reports.resumo_hora :
                  LET l == arquivo_reports.resumo_hora[i]
                  IN  (l.poi = c.poi /\ MesAno(l.hora) = c.mes)
                          => \E k \in DOMAIN c.resumo_novos : c.resumo_novos[k] = l

\* an atualizar_candles call has reached the write of the workbook
EscritaIniciada ==
    chamada_candles.n > 0 /\ (pc = "upload" \/ retorno \in BOOLEAN)

\* C16 (atomic store write): once salvar_arquivo_reports has started to write,
\* the stored workbook is either the one stored before the call or the new
\* one, in every state, and it is the one stored before when the write has
\* returned False.
C16_AtomicStoreWrite ==
    EscritaIniciada =>
        /\ arquivo_reports \in { chamada_candles.antes, chamada_candles.buffer }
        /\ (pc = "agrupado" /\ retorno = FALSE)
               => arquivo_reports = chamada_candles.antes

\* the rows of antes that are also rows of depois, as often or more
AindaGuardadas(antes, depois, Fora(_)) ==
    \A i \in DOMAIN antes :
        Fora(antes[i]) => Ocorrencias(depois, antes[i]) >= Ocorrencias(antes, antes[i])

\* C17 (frame of the store write): after atualizar_candles(poi, mes, ano) has
\* succeeded, every event row and every hourly row stored before the call
\* whose POI is another one or whose month or year is another one is still
\* stored, whatever the loads of the existing sheets returned.
C17_StoreWriteFrame ==
    CandlesAtualizados =>
        LET c == chamada_candles
            ForaEvento(l) == l.poi # c.poi \/ MesAno(l.data_evento) # c.mes
            ForaHora(l) == l.poi # c.poi \/ MesAno(l.hora) # c.mes
        IN  /\ AindaGuardadas(c.antes.candles, arquivo_reports.candles, ForaEvento)
            /\ AindaGuardadas(c.antes.resumo_hora, arquivo_reports.resumo_hora, ForaHora)

-----------------------------------------------------------------------------
(* Properties of the trajectories (specification SpecTrajetos).            *)

ComTrajetos == pc = "trajetos"

\* the later stays of the vehicle of row i, up to the first stay of another
\* vehicle, whose group is one of destinos
Candidatos(d, i, destinos) ==
    { j \in (i + 1) .. Len(d) :
        /\ \A k \in (i + 1) .. j : d[k].veiculo = d[i].veiculo
        /\ d[j].grupo \in destinos }

\* the trajectory of row i towards the groups destinos: from its exit to the
\* entry of the first candidate, if that entry is not before the exit
TrajetoEsperado(d, i, destinos) ==
    LET c == Candidatos(d, i, destinos)
    IN  IF c = {} THEN 0
        ELSE LET j == Minimo(c)
             IN  IF d[j].entrada >= d[i].saida
                 THEN TempoH(d[j].entrada - d[i].saida) ELSE 0

\* C18 (trajectory scan): for a stay of a loading group 'Trajeto Carregado'
\* is the time from its exit to the entry of the first later unloading stay
\* of the same vehicle found before any stay of another vehicle, when that
\* entry is not before the exit, and 0 otherwise (no later stay is tried);
\* 'Trajeto Vazio' of an unloading stay is the same towards the first loading
\* stay; every other trajectory cell is 0.
C18_TrajectoryScan ==
    ComTrajetos =>
        /\ Len(df_traj) = Len(df_ag)
        /\ \A i \in DOMAIN df_ag :
              /\ df_traj[i].trajeto_carregado =
                    IF df_ag[i].grupo \in {"Carregamento", "Fabrica"}
                    THEN TrajetoEsperado(df_ag, i, {"Descarregamento", "Terminal"})
                    ELSE 0
              /\ df_traj[i].trajeto_vazio =
                    IF df_ag[i].grupo \in {"Descarregamento", "Terminal"}
                    THEN TrajetoEsperado(df_ag, i, {"Carregamento", "Fabrica"})
                    ELSE 0

\* a loading stay whose first unloading stay begins before its exit and is
\* followed by an unloading stay of the vehicle that begins after it
C18_Witness ==
    /\ ComTrajetos
    /\ Len(df_ag) = 3
    /\ df_ag[1].grupo = "Fabrica" /\ df_ag[2].grupo = "Terminal"
    /\ df_ag[3].grupo = "Descarregamento"
    /\ df_ag[1].veiculo = df_ag[3].veiculo
    /\ df_ag[2].entrada < df_ag[1].saida
    /\ df_ag[3].entrada > df_ag[1].saida
    /\ df_traj[1].trajeto_carregado = 0
    /\ df_traj[2].trajeto_vazio = 0

\* the sum of 'Tempo (h)' of the rows of d strictly between i and j whose
\* group is grupo
RECURSIVE HorasEntre(_, _, _, _)
HorasEntre(d, i, j, grupo) ==
    IF j - i <= 1 THEN 0
    ELSE (IF d[j - 1].grupo = grupo THEN d[j - 1].tempo ELSE 0)
         + HorasEntre(d, i, j - 1, grupo)

\* the check of one row's annotations against its trajectory valor towards
\* the groups destinos and the bound sla
AnotacaoCerta(i, valor, destinos, tipo, sla) ==
    LET obs == df_traj[i].observacao
    IN  IF valor > sla
        THEN LET j == Minimo(Candidatos(df_ag, i, destinos))
                 hm == HorasEntre(df_ag, i, j, "Manutencao")
                 ho == HorasEntre(df_ag, i, j, "Parada Operacional")
             IN  /\ Len(obs) = 1
                 /\ obs[1].tipo = tipo
                 /\ obs[1].delta = valor
                 /\ obs[1].sla = sla
                 /\ IF hm + ho > 0
                    THEN /\ obs[1].justificativa = "itens"
                         /\ obs[1].horas_manutencao = hm
                         /\ obs[1].horas_operacional = ho
                    ELSE obs[1].justificativa = "sem justificativa"
        ELSE obs = << >>

\* C19 (SLA annotation): a stay gets an annotation if and only if its
\* trajectory is strictly greater than the bound of its kind; the hours of
\* justification are the durations of the stays strictly between the stay and
\* the stay that ends the trajectory, by group Manutenção and Parada
\* Operacional; they are itemized when their sum is > 0 and the annotation
\* says "sem justificativa" otherwise.
C19_SlaAnnotation ==
    ComTrajetos =>
        \A i \in DOMAIN df_traj :
            IF df_ag[i].grupo \in GruposCarga
            THEN AnotacaoCerta(i, df_traj[i].trajeto_carregado, GruposDescarga,
                               "Trajeto Carregado", sla_trajeto_carregado)
            ELSE IF df_ag[i].grupo \in GruposDescarga
            THEN AnotacaoCerta(i, df_traj[i].trajeto_vazio, GruposCarga,
                               "Trajeto Vazio", sla_trajeto_vazio)
            ELSE df_traj[i].observacao = << >>

\* a long trajectory with an hour of Parada Operacional in between
C19_Witness ==
    /\ ComTrajetos
    /\ \E i \in DOMAIN df_traj :
          /\ Len(df_traj[i].observacao) = 1
          /\ df_traj[i].observacao[1].justificativa = "itens"
          /\ df_traj[i].observacao[1].horas_operacional = 100000
          /\ df_traj[i].observacao[1].horas_manutencao = 0

-----------------------------------------------------------------------------
(* The orchestrator (main.py): one cycle over the configured units, in     *)
(* CANDLES or in COMPLETO mode.  The treated table is not looked into      *)
(* here: what is kept of one unit's processing is the sequence of calls it *)
(* makes, <<name, argument>>, and its return value.  How the external      *)
(* collaborators answer during one unit's processing (the scraper, the     *)
(* uploader, the stored workbook, the alert list) is an input, cenario.    *)

\* most units of config["unidades"]
MaxUnidades == 2

Unidades == {"RRP", "TLS", "NOVA"}

\* config["pois_por_unidade"][unidade]; "NOVA" is a unit other than the two
\* the code names
pois_por_unidade(un) ==
    IF un = "RRP" THEN config_pois
    ELSE IF un = "TLS" THEN
        << [ponto_interesse |-> "EXPEDICAO - CELULOSE - ZONA DE CARREG.",
            grupo |-> "Carregamento", ativo |-> TRUE, threshold_alerta |-> 7],
           [ponto_interesse |-> "Descarga TAP", grupo |-> "Terminal",
            ativo |-> TRUE, threshold_alerta |-> 7],
           [ponto_interesse |-> "REBUCCI", grupo |-> "Manutencao",
            ativo |-> TRUE, threshold_alerta |-> 5] >>
    ELSE << [ponto_interesse |-> "Patio", grupo |-> "Parada Operacional",
             ativo |-> TRUE, threshold_alerta |-> 0] >>

\* the configurations carregar_config returns and validar_configuracao
\* accepts: at least one unit, inactive units already dropped, names distinct
Configuracoes ==
    { c \in UNION { [1 .. n -> [unidade : Unidades, ativo : {TRUE}]] : n \in 1 .. MaxUnidades } :
        \A i, j \in DOMAIN c : i # j => c[i].unidade # c[j].unidade }

\* the list pois_candles of the unit, as both cycles write it out
pois_candles(un) ==
    IF un = "RRP"
    THEN <<"Descarga Inocencia", "Carregamento Fabrica RRP", "PA AGUA CLARA", "Oficina JSL">>
    ELSE IF un = "TLS"
    THEN <<"PA Celulose", "Manutencao Celulose", "Carregamento Fabrica",
           "Descarga TAP", "Oficina Central JSL">>
    ELSE << >>

\* the groups of the unit's POI sheet
GruposDaUnidade(un) ==
    { pois_por_unidade(un)[k].grupo : k \in DOMAIN pois_por_unidade(un) }

AteUm(S) == {{}} \cup { {x} : x \in S }

DoisPrimeiros(s) == { s[k] : k \in DOMAIN s \cap 1 .. 2 }

\* every collaborator answers, every POI has events, no group has alerts
CenarioOk ==
    [erro_download  |-> FALSE,     \* scraper.baixar_relatorio_c09 raises
     erro_processor |-> FALSE,     \* processar_relatorio_c09 raises
     falha_upload   |-> "nenhuma", \* the upload_arquivo call that returns False
     df_vazio       |-> FALSE,     \* carregar_planilha_buffer returns no rows
     falha_resumo   |-> FALSE,     \* atualizar_resumo_diario returns False
     sem_eventos    |-> {},        \* POIs for which gerar_candles_poi finds no event
     falha_candles  |-> {},        \* POIs for which atualizar_candles returns False
     com_alertas    |-> {},        \* groups whose detection gives alert rows
     erro_grupo     |-> {}]        \* groups whose detection raises an error

\* the answers of the collaborators during one unit's processing
Cenarios(un) ==
    { [CenarioOk EXCEPT !.erro_download = TRUE],
      [CenarioOk EXCEPT !.erro_processor = TRUE],
      [CenarioOk EXCEPT !.falha_upload = "tratado"],
      [CenarioOk EXCEPT !.falha_upload = "original"],
      [CenarioOk EXCEPT !.df_vazio = TRUE] }
    \cup
    { [CenarioOk EXCEPT !.falha_resumo = r, !.sem_eventos = s, !.falha_candles = f,
                        !.com_alertas = a, !.erro_grupo = e] :
        r \in BOOLEAN,
        s \in AteUm(DoisPrimeiros(pois_candles(un))),
        f \in AteUm(DoisPrimeiros(pois_candles(un))),
        a \in {{}, GruposDaUnidade(un)},
        e \in AteUm(GruposDaUnidade(un) \cap {"Manutencao", "Carregamento"}) }

\* the for over pois_candles, from POI k on: the calls made and the number
\* of POIs counted as success
RECURSIVE LoopCandles(_, _, _)
LoopCandles(pois, k, c) ==
    IF k > Len(pois) THEN [chamadas |-> << >>, sucessos |-> 0]
    ELSE LET resto == LoopCandles(pois, k + 1, c)
             gerar == << <<"gerar_candles_poi", pois[k]>> >>
         IN  IF pois[k] \in c.sem_eventos
             THEN [chamadas |-> gerar \o resto.chamadas,
                   sucessos |-> 1 + resto.sucessos]
             ELSE [chamadas |-> gerar \o << <<"atualizar_candles", pois[k]>> >>
                                     \o resto.chamadas,
                   sucessos |-> (IF pois[k] \in c.falha_candles THEN 0 ELSE 1)
                                + resto.sucessos]

\* a light refresh that also updates the daily summary
_processar_candles_sem_alertas_ComResumo(un, c) ==
    LET carregar == << <<"carregar_planilha_buffer", un>> >>
    IN  IF c.df_vazio THEN [retorno |-> TRUE, chamadas |-> carregar]
        ELSE [retorno  |-> TRUE,
              chamadas |-> carregar \o << <<"atualizar_resumo_diario", un>> >>
                           \o LoopCandles(pois_candles(un), 1, c).chamadas]

\* C09Orchestrator._processar_candles_sem_alertas
_processar_candles_sem_alertas(un, c) ==
    LET carregar == << <<"carregar_planilha_buffer", un>> >>
    IN  IF c.df_vazio THEN [retorno |-> TRUE, chamadas |-> carregar]
        ELSE IF un \notin {"RRP", "TLS"}
        THEN [retorno |-> FALSE, chamadas |-> carregar]
        ELSE LET laco == LoopCandles(pois_candles(un), 1, c)
             IN  [retorno  |-> laco.sucessos = Len(pois_candles(un)),
                  chamadas |-> carregar \o laco.chamadas]

\* C09Orchestrator.processar_unidade_modo_candles; self.scraper is None in
\* an orchestrator built in CANDLES mode and the call of its method raises
\* AttributeError, which the except clause turns into False
processar_unidade_modo_candles(un, sc, c) ==
    IF sc = "None" THEN [retorno |-> FALSE, chamadas |-> << >>]
    ELSE LET baixar == << <<"baixar_relatorio_c09", un>> >>
             tratar == << <<"processar_relatorio_c09", un>> >>
         IN  IF c.erro_download THEN [retorno |-> FALSE, chamadas |-> baixar]
             ELSE IF c.erro_processor
             THEN [retorno |-> FALSE, chamadas |-> baixar \o tratar]
             ELSE LET r == _processar_candles_sem_alertas(un, c)
                  IN  [retorno  |-> r.retorno,
                       chamadas |-> baixar \o tratar \o r.chamadas]

\* self._obter_grupos_alertas() in _processar_sistema_alertas: the class
\* AnalyticsProcessor defines _obter_pois_alertas and no attribute of this
\* name, so evaluating the call raises AttributeError
_obter_grupos_alertas(un) == "AttributeError"

\* the for over grupos_thresholds.items(), from entry k on.  An error inside
\* identificar_desvios_grupo is caught there by an except clause that
\* returns nothing: the caller gets None, None.empty raises AttributeError
\* and the except clause around the whole for statement ends the loop.
RECURSIVE LoopGrupos(_, _, _)
LoopGrupos(grupos_thresholds, k, c) ==
    IF k > Len(grupos_thresholds) THEN << >>
    ELSE LET grupo == grupos_thresholds[k][1]
             detectar == << <<"identificar_desvios_grupo", grupo>> >>
             enviar == IF grupo \in c.com_alertas
                       THEN << <<"enviar_alertas_sharepoint", grupo>> >>
                       ELSE << >>
         IN  IF grupo \in c.erro_grupo THEN detectar
             ELSE detectar \o enviar \o LoopGrupos(grupos_thresholds, k + 1, c)

\* AnalyticsProcessor._processar_sistema_alertas: the calls it makes
_processar_sistema_alertas(un, c) ==
    LET grupos_thresholds == _obter_grupos_alertas(un)
    IN  IF grupos_thresholds = "AttributeError" THEN << >>
        ELSE LoopGrupos(grupos_thresholds, 1, c)

\* AnalyticsProcessor.processar_analytics_completo
processar_analytics_completo(un, c) ==
    LET carregar == << <<"carregar_planilha_buffer", un>> >>
    IN  IF c.df_vazio THEN [retorno |-> FALSE, chamadas |-> carregar]
        ELSE [retorno  |-> TRUE,
              chamadas |-> carregar
                           \o << <<"atualizar_resumo_diario", un>> >>
                           \o LoopCandles(pois_candles(un), 1, c).chamadas
                           \o << <<"_processar_sistema_alertas", un>> >>
                           \o _processar_sistema_alertas(un, c)]

\* C09Orchestrator.processar_unidade_modo_completo; _processar_analytics
\* drops what processar_analytics_completo returns
processar_unidade_modo_completo(un, sc, c) ==
    IF sc = "None" THEN [retorno |-> FALSE, chamadas |-> << >>]
    ELSE LET baixar == << <<"baixar_relatorio_c09", un>> >>
             tratar == << <<"processar_relatorio_c09", un>> >>
             tratado == << <<"upload_arquivo", "tratado">> >>
             original == << <<"upload_arquivo", "original">> >>
         IN  IF c.erro_download THEN [retorno |-> FALSE, chamadas |-> baixar]
             ELSE IF c.erro_processor
             THEN [retorno |-> FALSE, chamadas |-> baixar \o tratar]
             ELSE IF c.falha_upload = "tratado"
             THEN [retorno |-> FALSE, chamadas |-> baixar \o tratar \o tratado]
             ELSE IF c.falha_upload = "original"
             THEN [retorno  |-> FALSE,
                   chamadas |-> baixar \o tratar \o tratado \o original]
             ELSE [retorno  |-> TRUE,
                   chamadas |-> baixar \o tratar \o tratado \o original
                                \o processar_analytics_completo(un, c).chamadas]

\* FrotalogScraper.baixar_relatorio_c09 on the download folder: the steps
\* before the wait may raise; _aguardar_download_completo returns the path
\* of report.xlsx as soon as a file of that name exists and no
\* report.xlsx.crdownload does.  With a report.xlsx left in the folder the
\* wait may end on that file (obsoleto) or on the one the browser writes
baixar_relatorio_c09(pasta, un, c, obsoleto) ==
    IF c.erro_download THEN [erro |-> TRUE, pasta |-> pasta, relatorio |-> "nenhum"]
    ELSE IF pasta # "vazia" /\ obsoleto
    THEN [erro |-> FALSE, pasta |-> pasta, relatorio |-> pasta]
    ELSE [erro |-> FALSE, pasta |-> un, relatorio |-> un]

\* whether processar_unidade_modo_candles reaches its step 5,
\* _limpar_arquivo_temporario: not when the processing of the report raises
LimpaArquivo_candles(c) == ~ c.erro_processor

\* whether processar_unidade_modo_completo reaches its step 6,
\* _limpar_arquivo_temporario: not when the processing of the report raises
\* and not when the upload fails
LimpaArquivo_completo(c) == ~ c.erro_processor /\ c.falha_upload = "nenhuma"

\* the download folder after a unit's processing and the report it read
ArquivoDaUnidade(pasta, un, sc, c, obsoleto, limpa) ==
    IF sc = "None" THEN [pasta |-> pasta, relatorio |-> "nenhum"]
    ELSE LET d == baixar_relatorio_c09(pasta, un, c, obsoleto)
         IN  IF d.erro THEN [pasta |-> pasta, relatorio |-> "nenhum"]
             ELSE [pasta |-> IF limpa THEN "vazia" ELSE d.pasta,
                   relatorio |-> d.relatorio]

\* unidades_ativas of both cycles
unidades_ativas(cfg) == SelectSeq(cfg, LAMBDA u : u.ativo)

\* a for statement that is left at the first unit that fails
RestoDaFila_ParaNaFalha(f, sucesso) == IF sucesso THEN Tail(f) ELSE << >>

\* the units the for statement of a cycle visits after the one just processed
RestoDaFila(f, sucesso) == Tail(f)

\* C09Orchestrator.__init__
C09Orchestrator(modo, cfg) ==
    /\ pc_ciclo = "nenhum"
    /\ pc_ciclo' = "pronto"
    /\ unidades' = cfg
    /\ modo_execucao' = modo
    /\ scraper' = IF modo = "CANDLES" THEN "None" ELSE "FrotalogScraper"
    /\ UNCHANGED <<ciclo, fila, sucessos, falhas, resultados, chamadas,
                   cenario_ext, retorno_ciclo, pasta_download>>
    /\ UNCHANGED <<vars_motor, vars_http, vars_retry>>

Construir ==
    \E modo \in {"CANDLES", "COMPLETO"}, cfg \in Configuracoes :
        C09Orchestrator(modo, cfg)

\* the head of executar_ciclo_candles (tipo "CANDLES") and of
\* executar_ciclo_completo (tipo "COMPLETO"); executar_com_retry calls the
\* one of modo_execucao, a caller of the class may call either
executar_ciclo(tipo) ==
    /\ pc_ciclo = "pronto"
    /\ pc_ciclo' = "ciclo"
    /\ ciclo' = tipo
    /\ fila' = unidades_ativas(unidades)
    /\ sucessos' = 0
    /\ falhas' = 0
    /\ UNCHANGED <<modo_execucao, scraper, unidades, resultados, chamadas,
                   cenario_ext, retorno_ciclo, pasta_download>>
    /\ UNCHANGED <<vars_motor, vars_http, vars_retry>>

IniciarCiclo == \E tipo \in {"CANDLES", "COMPLETO"} : executar_ciclo(tipo)

\* one pass of the for statement of the cycle: r is what the unit's
\* processing gave under the collaborators' answers c, a what it did to the
\* download folder
PassoDoCiclo(r, c, a) ==
    /\ chamadas' = r.chamadas
    /\ cenario_ext' = c
    /\ pasta_download' = a.pasta
    /\ resultados' = Append(resultados,
                            [unidade |-> Head(fila).unidade, retorno |-> r.retorno,
                             relatorio |-> a.relatorio])
    /\ sucessos' = IF r.retorno THEN sucessos + 1 ELSE sucessos
    /\ falhas' = IF r.retorno THEN falhas ELSE falhas + 1
    /\ fila' = RestoDaFila(fila, r.retorno)
    /\ UNCHANGED <<pc_ciclo, modo_execucao, scraper, unidades, ciclo, retorno_ciclo>>
    /\ UNCHANGED <<vars_motor, vars_http, vars_retry>>

ProcessarUnidadeCandles ==
    /\ pc_ciclo = "ciclo" /\ ciclo = "CANDLES" /\ fila # << >>
    /\ \E c \in Cenarios(Head(fila).unidade), obsoleto \in BOOLEAN :
          PassoDoCiclo(processar_unidade_modo_candles(Head(fila).unidade, scraper, c), c,
                       ArquivoDaUnidade(pasta_download, Head(fila).unidade, scraper,
                                        c, obsoleto, LimpaArquivo_candles(c)))

ProcessarUnidadeCompleto ==
    /\ pc_ciclo = "ciclo" /\ ciclo = "COMPLETO" /\ fila # << >>
    /\ \E c \in Cenarios(Head(fila).unidade), obsoleto \in BOOLEAN :
          PassoDoCiclo(processar_unidade_modo_completo(Head(fila).unidade, scraper, c), c,
                       ArquivoDaUnidade(pasta_download, Head(fila).unidade, scraper,
                                        c, obsoleto, LimpaArquivo_completo(c)))

\* the end of the cycle: return falhas == 0
TerminarCiclo ==
    /\ pc_ciclo = "ciclo" /\ fila = << >>
    /\ pc_ciclo' = "fim"
    /\ retorno_ciclo' = (falhas = 0)
    /\ UNCHANGED <<modo_execucao, scraper, unidades, ciclo, fila, sucessos,
                   falhas, resultados, chamadas, cenario_ext, pasta_download>>
    /\ UNCHANGED <<vars_motor, vars_http, vars_retry>>

InitSemMotor ==
    /\ pc = "inicio"
    /\ df = << >>
    /\ df_ag = << >>
    /\ resumo_hora_sp = {}
    /\ candles_sp = {}
    /\ InitComum
    /\ InitSemEntrega
    /\ InitSemArquivo
    /\ df_traj = << >>

InitCiclo ==
    /\ InitSemMotor
    /\ InitSemCiclo
    /\ InitSemHttp
    /\ InitSemRetry

NextCiclo ==
    \/ Construir
    \/ IniciarCiclo
    \/ ProcessarUnidadeCandles
    \/ ProcessarUnidadeCompleto
    \/ TerminarCiclo

SpecCiclo == InitCiclo /\ [][NextCiclo]_vars

-----------------------------------------------------------------------------
(* executar_com_retry: the cycle of modo_execucao, repeated.               *)

\* largest max_tentativas handed to executar_com_retry
MaxTentativas == 2

\* the call executar_com_retry(max_tentativas), up to the for statement
executar_com_retry(maximo) ==
    /\ pc_ciclo = "pronto"
    /\ pc_ciclo' = "retry"
    /\ max_tentativas' = maximo
    /\ tentativa' = 0
    /\ UNCHANGED <<modo_execucao, scraper, unidades, ciclo, fila, sucessos,
                   falhas, resultados, chamadas, cenario_ext, retorno_ciclo,
                   pasta_download,
                   notificacoes_criticas, retorno_retry>>
    /\ UNCHANGED <<vars_motor, vars_http>>

ExecutarComRetry == \E maximo \in 1 .. MaxTentativas : executar_com_retry(maximo)

\* the cycle an attempt executes
CicloDoModo(modo) == IF modo = "CANDLES" THEN "CANDLES" ELSE "COMPLETO"

\* a for statement that goes on after the last attempt
TemProximaTentativa_SemLimite(t, maximo) == TRUE

\* for tentativa in range(1, max_tentativas + 1): whether another pass follows
TemProximaTentativa(t, maximo) == t < maximo

\* the head of the for statement: the next attempt begins its cycle, or the
\* range is exhausted and the statement after the loop returns False
ProximaTentativa ==
    /\ pc_ciclo = "retry"
    /\ IF TemProximaTentativa(tentativa, max_tentativas)
       THEN /\ tentativa' = tentativa + 1
            /\ pc_ciclo' = "ciclo"
            /\ ciclo' = CicloDoModo(modo_execucao)
            /\ fila' = unidades_ativas(unidades)
            /\ sucessos' = 0
            /\ falhas' = 0
            /\ resultados' = << >>
            /\ chamadas' = << >>
            /\ cenario_ext' = "nenhum"
            /\ retorno_ciclo' = "nenhum"
            /\ UNCHANGED <<retorno_retry, pasta_download>>
       ELSE /\ pc_ciclo' = "retornou"
            /\ retorno_retry' = "False"
            /\ UNCHANGED <<tentativa, ciclo, fila, sucessos, falhas, resultados,
                           chamadas, cenario_ext, retorno_ciclo, pasta_download>>
    /\ UNCHANGED <<modo_execucao, scraper, unidades, max_tentativas,
                   notificacoes_criticas>>
    /\ UNCHANGED <<vars_motor, vars_http>>

\* if sucesso: return True; else the loop goes on
FimDaTentativa ==
    /\ pc_ciclo = "fim"
    /\ max_tentativas > 0
    /\ IF retorno_ciclo
       THEN pc_ciclo' = "retornou" /\ retorno_retry' = "True"
       ELSE pc_ciclo' = "retry" /\ UNCHANGED retorno_retry
    /\ UNCHANGED <<modo_execucao, scraper, unidades, ciclo, fila, sucessos,
                   falhas, resultados, chamadas, cenario_ext, retorno_ciclo,
                   pasta_download,
                   max_tentativas, tentativa, notificacoes_criticas>>
    /\ UNCHANGED <<vars_motor, vars_http>>

\* except Exception: an exception leaves the cycle; on the last attempt the
\* critical failure is notified and False returned, otherwise the loop goes
\* on after the sleep
ExcecaoNaTentativa ==
    /\ pc_ciclo = "ciclo"
    /\ max_tentativas > 0
    /\ IF tentativa = max_tentativas
       THEN /\ notificacoes_criticas' = notificacoes_criticas + 1
            /\ pc_ciclo' = "retornou"
            /\ retorno_retry' = "False"
       ELSE /\ pc_ciclo' = "retry"
            /\ UNCHANGED <<notificacoes_criticas, retorno_retry>>
    /\ UNCHANGED <<modo_execucao, scraper, unidades, ciclo, fila, sucessos,
                   falhas, resultados, chamadas, cenario_ext, retorno_ciclo,
                   pasta_download,
                   max_tentativas, tentativa>>
    /\ UNCHANGED <<vars_motor, vars_http>>

NextRetry ==
    \/ Construir
    \/ ExecutarComRetry
    \/ ProximaTentativa
    \/ ProcessarUnidadeCandles
    \/ ProcessarUnidadeCompleto
    \/ TerminarCiclo
    \/ FimDaTentativa
    \/ ExcecaoNaTentativa

SpecRetry == InitCiclo /\ [][NextRetry]_vars

-----------------------------------------------------------------------------
(* The HTTP trigger (app.py).  The server is started with threaded=True:   *)
(* requests are handled concurrently with the background threads that      *)
(* execute the system.  A background thread is followed through three      *)
(* positions: "started" (Thread.start() has returned, the target has not   *)
(* yet executed its first statement), "executando" (execution_state says   *)
(* running) and "terminado".  What the orchestrator does in between is     *)
(* kept only as the result it reports.                                     *)

\* most POST requests of a run of the server
MaxPosts == 3

Modos == {"COMPLETO", "CANDLES"}

\* index(), method POST, with MAIN_AVAILABLE true: the busy test and the
\* start of the background thread; execution_state is not written here
index_POST(mode) ==
    /\ Len(respostas) < MaxPosts
    /\ IF execution_state.running
       THEN /\ respostas' = Append(respostas, [status |-> "429", thread |-> 0])
            /\ UNCHANGED threads
       ELSE /\ threads' = Append(threads, [mode |-> mode, pc |-> "started"])
            /\ respostas' = Append(respostas,
                                   [status |-> "200", thread |-> Len(threads) + 1])
    /\ UNCHANGED execution_state
    /\ UNCHANGED <<vars_motor, vars_ciclo, vars_retry>>

Post == \E mode \in Modos : index_POST(mode)

\* execute_c09_async, its first statement: execution_state.update(running=True, ...)
execute_c09_async_inicio(t) ==
    /\ threads[t].pc = "started"
    /\ threads' = [threads EXCEPT ![t].pc = "executando"]
    /\ execution_state' = [execution_state EXCEPT !.running = TRUE,
                                                  !.mode = threads[t].mode]
    /\ UNCHANGED respostas
    /\ UNCHANGED <<vars_motor, vars_ciclo, vars_retry>>

ThreadInicio == \E t \in DOMAIN threads : execute_c09_async_inicio(t)

\* an except clause that leaves the flag as it is
running_final_SoRetorno(resultado) == resultado = "ERROR"

\* "running" in execution_state.update(...) of both ways out of
\* execute_c09_async: after the return of executar_com_retry and in the
\* except clause
running_final(resultado) == FALSE

\* execute_c09_async, after the orchestrator has returned or raised:
\* execution_state.update(running=False, last_result=...)
execute_c09_async_fim(t, resultado) ==
    /\ threads[t].pc = "executando"
    /\ threads' = [threads EXCEPT ![t].pc = "terminado"]
    /\ execution_state' = [execution_state EXCEPT !.running = running_final(resultado),
                                                  !.last_result = resultado]
    /\ UNCHANGED respostas
    /\ UNCHANGED <<vars_motor, vars_ciclo, vars_retry>>

ThreadFim ==
    \E t \in DOMAIN threads, resultado \in {"SUCCESS", "FAILED", "ERROR"} :
        execute_c09_async_fim(t, resultado)

InitHttp ==
    /\ InitSemMotor
    /\ InitSemCiclo
    /\ InitSemHttp
    /\ InitSemRetry

NextHttp == Post \/ ThreadInicio \/ ThreadFim

SpecHttp == InitHttp /\ [][NextHttp]_vars

\* a started thread is scheduled, and the execution it carries terminates
SpecHttpJusto ==
    SpecHttp /\ WF_vars(ThreadInicio) /\ WF_vars(ThreadFim)

-----------------------------------------------------------------------------
(* Properties of the orchestrator (specification SpecCiclo).               *)

\* the groups of the unit that have an active POI with a positive threshold
GruposConfigurados(un) ==
    { pois_por_unidade(un)[k].grupo :
        k \in { j \in DOMAIN pois_por_unidade(un) :
                  /\ pois_por_unidade(un)[j].ativo
                  /\ pois_por_unidade(un)[j].threshold_alerta > 0 } }

\* how often the last processing of a unit made the call nome(arg)
NumChamadas(nome, arg) ==
    Cardinality({ k \in DOMAIN chamadas : chamadas[k] = <<nome, arg>> })

Chamou(nome) == \E k \in DOMAIN chamadas : chamadas[k][1] = nome

\* the unit processed last
UltimaUnidade == resultados[Len(resultados)].unidade

\* the last unit was processed in COMPLETO mode and its analytics got past
\* the refresh of the candles, to the call of _processar_sistema_alertas
FaseDeAlertas ==
    /\ ciclo = "COMPLETO"
    /\ resultados # << >>
    /\ Chamou("_processar_sistema_alertas")

\* C24 (as claimed): full run reaches delivery.  In a COMPLETO run, once the
\* candles are refreshed, detection runs exactly once for every group of the
\* unit with a positive alert threshold, and every non-empty alert set is
\* handed to enviar_alertas_sharepoint.
C24_FullRunReachesDelivery ==
    FaseDeAlertas =>
        \A g \in GruposConfigurados(UltimaUnidade) :
            /\ NumChamadas("identificar_desvios_grupo", g) = 1
            /\ (g \in cenario_ext.com_alertas /\ g \notin cenario_ext.erro_grupo)
                  => NumChamadas("enviar_alertas_sharepoint", g) = 1

ChamadasDoRefresh ==
    {"baixar_relatorio_c09", "processar_relatorio_c09", "carregar_planilha_buffer",
     "gerar_candles_poi", "atualizar_candles"}

\* the calls that write to an external store
Escritas ==
    {"atualizar_candles", "atualizar_resumo_diario", "upload_arquivo",
     "enviar_alertas_sharepoint"}

\* C26: light refresh frame.  The processing of a unit in a CANDLES cycle
\* calls neither the deviation detection, nor the alert delivery, nor the
\* update of the daily summary, nor the upload of the treated report; the
\* only call that writes to a store is atualizar_candles.
C26_LightRefreshFrame ==
    (ciclo = "CANDLES" /\ resultados # << >>) =>
        \A k \in DOMAIN chamadas :
            /\ chamadas[k][1] \in ChamadasDoRefresh
            /\ chamadas[k][1] \in Escritas => chamadas[k][1] = "atualizar_candles"

\* a unit processed in a CANDLES cycle whose candles were stored
C26_Witness ==
    /\ ciclo = "CANDLES"
    /\ resultados # << >>
    /\ resultados[Len(resultados)].retorno
    /\ Chamou("atualizar_candles")

\* no external collaborator failed
SemFalhaExterna(c) ==
    /\ ~c.erro_download
    /\ ~c.erro_processor
    /\ c.falha_upload = "nenhuma"
    /\ ~c.falha_resumo
    /\ c.falha_candles = {}
    /\ c.erro_grupo = {}

\* C27 (as claimed): CANDLES mode can succeed.  In an orchestrator built in
\* CANDLES mode processar_unidade_modo_candles returns True for an active
\* unit when no external collaborator fails, and so does the cycle over it.
C27_CandlesModeCanSucceed ==
    ( /\ modo_execucao = "CANDLES"
      /\ ciclo = "CANDLES"
      /\ resultados # << >>
      /\ UltimaUnidade \in {"RRP", "TLS"}
      /\ SemFalhaExterna(cenario_ext) ) =>
        /\ resultados[Len(resultados)].retorno
        /\ (pc_ciclo = "fim" /\ Len(resultados) = 1) => retorno_ciclo = TRUE

\* C29: unit failure isolation.  In both cycles the units visited so far are
\* the first active units of the configuration, in its order, and when the
\* cycle is over every active unit has been visited once and the cycle
\* returns True exactly when no unit failed.
C29_UnitFailureIsolation ==
    LET ativas == unidades_ativas(unidades)
    IN  /\ Len(resultados) <= Len(ativas)
        /\ \A k \in DOMAIN resultados : resultados[k].unidade = ativas[k].unidade
        /\ pc_ciclo = "fim" =>
              /\ Len(resultados) = Len(ativas)
              /\ retorno_ciclo = (\A k \in DOMAIN resultados : resultados[k].retorno)

\* a finished COMPLETO cycle whose first unit failed and whose second unit
\* was processed with success
C29_Witness ==
    /\ pc_ciclo = "fim"
    /\ ciclo = "COMPLETO"
    /\ Len(resultados) >= 2
    /\ ~resultados[1].retorno
    /\ resultados[2].retorno
    /\ retorno_ciclo = FALSE

-----------------------------------------------------------------------------
(* Properties of the HTTP trigger (specification SpecHttp).                *)

\* the background threads that have been started and have not finished
ThreadsVivas == { t \in DOMAIN threads : threads[t].pc # "terminado" }

\* C28 (as claimed): no overlapping runs.  At most one background execution
\* exists at any time: a POST that arrives after another one was accepted
\* and before that execution has finished is answered 429 and starts no
\* thread.
C28_NoOverlappingRuns == Cardinality(ThreadsVivas) <= 1

-----------------------------------------------------------------------------
(* Properties of the daily summary (specification SpecResumo).             *)

\* the last call of atualizar_resumo_diario, as <<name, unit, date>>
UltimoResumo == chamadas[Len(chamadas)]

\* C36: a call of atualizar_resumo_diario that returns True changes only the
\* sheet "Resumo": the rows of the sheets "Candles" and "Resumo por Hora"
\* stored before the call are still stored after it
C36_ResumoPreservesSeries ==
    [][ (Len(chamadas') = Len(chamadas) + 1 /\ retorno' = TRUE)
        => /\ arquivo_reports'.candles = arquivo_reports.candles
           /\ arquivo_reports'.resumo_hora = arquivo_reports.resumo_hora
      ]_<<chamadas, arquivo_reports>>

\* C38: after atualizar_resumo_diario(unidade, data, ...) has returned True
\* the sheet "Resumo" holds a row for that unit and that date
C38_ResumoRowPerUnit ==
    (Len(chamadas) > 0 /\ retorno = TRUE) =>
        \E k \in DOMAIN arquivo_reports.resumo :
            /\ arquivo_reports.resumo[k].unidade = UltimoResumo[2]
            /\ arquivo_reports.resumo[k].data = UltimoResumo[3]

-----------------------------------------------------------------------------
(* Properties of the retry loop (specification SpecRetry).                 *)

\* C32: executar_com_retry(max_tentativas) runs at most max_tentativas
\* cycles; a cycle that returns True is followed at once by the return of
\* True; nothing runs after the return; False is returned only after the
\* last attempt, none of which returned True
C32_RetryTermination ==
    /\ [](tentativa <= max_tentativas)
    /\ [](retorno_retry # "nenhum" => pc_ciclo = "retornou")
    /\ [](retorno_retry = "False" => tentativa = max_tentativas)
    /\ [][ /\ pc_ciclo # "retornou"
           /\ (pc_ciclo = "fim" /\ retorno_ciclo)
                 => (pc_ciclo' = "retornou" /\ retorno_retry' = "True"
                     /\ tentativa' = tentativa)
           /\ retorno_retry' = "True" => (pc_ciclo = "fim" /\ retorno_ciclo)
         ]_<<pc_ciclo, tentativa, retorno_retry>>

\* the second attempt returned True after the first one failed
C32_Witness ==
    /\ pc_ciclo = "retornou" /\ retorno_retry = "True"
    /\ max_tentativas = 2 /\ tentativa = 2

\* C33: whenever executar_com_retry returns False after the last attempt,
\* the critical failure has been notified exactly once
C33_CriticalNotification ==
    retorno_retry = "False" => notificacoes_criticas = 1

\* C39: the report a unit's processing reads is the one downloaded for that
\* unit in that attempt: a file left in the download folder by an earlier
\* unit is never taken as the finished download of a later one
C39_ReportBelongsToUnit ==
    \A k \in DOMAIN resultados :
        resultados[k].relatorio \in {"nenhum", resultados[k].unidade}

\* C40: every background execution that terminates leaves running False and
\* last_result SUCCESS, FAILED or ERROR: when no execution is in progress
\* the flag is released, a busy service becomes ready again, and a POST that
\* finds the flag released is accepted
C40_BusyFlagReleased ==
    /\ []((threads # << >> /\ \A t \in DOMAIN threads : threads[t].pc = "terminado")
            => /\ ~ execution_state.running
               /\ execution_state.last_result \in {"SUCCESS", "FAILED", "ERROR"})
    /\ [][ \A t \in DOMAIN threads :
              (threads[t].pc = "executando" /\ threads'[t].pc = "terminado")
                 => /\ ~ execution_state'.running
                    /\ execution_state'.last_result \in {"SUCCESS", "FAILED", "ERROR"}
         ]_threads
    /\ [][ (Len(respostas') > Len(respostas) /\ ~ execution_state.running)
              => respostas'[Len(respostas')].status = "200" ]_respostas
    /\ (execution_state.running ~> ~ execution_state.running)

\* an execution ended by an exception has released the flag and a second
\* run has been accepted and has ended too
C40_Witness ==
    /\ Len(threads) = 2
    /\ \A t \in DOMAIN threads : threads[t].pc = "terminado"
    /\ execution_state.last_result = "ERROR"
    /\ ~ execution_state.running

-----------------------------------------------------------------------------
(* Properties of the path from the table to the alerts (SpecExemplo).      *)

\* the plates of the table
PlacasDaTabela == { df_ag[k].veiculo : k \in DOMAIN df_ag }

\* the table is n stays of n vehicles that arrive at the POI inside the
\* clock hour that begins at h, none of which departs before the end of it
ChegamNaHora(h) ==
    /\ Cardinality(PlacasDaTabela) = Len(df_ag)
    /\ \A k \in DOMAIN df_ag :
          /\ df_ag[k].ponto = poi_arg
          /\ h <= df_ag[k].entrada /\ df_ag[k].entrada < h + Hora1
          /\ SaidaValida(df_ag[k]) => df_ag[k].saida >= h + Hora1

\* the rows of the hourly summary for the hour that ends at fim
AmostrasDe(fim) == { k \in DOMAIN df_contagem : df_contagem[k].hora = fim }

\* the alert rows of the deviation instant fim
AlertasDe(fim) == { k \in DOMAIN df_alertas : df_alertas[k].data_hora_desvio = fim }

\* C31: when the n vehicles of the table arrive at one POI inside the same
\* clock hour and none departs before its end, the hourly sample of that hour
\* has n occupants at the end and the n plates; with a group threshold of at
\* most n the detector flags the end of the hour with the n plates, as the
\* first qualifying hour, at level 1 and with n rows
C31_EndToEndExample ==
    \A h \in {JanelaInicio(4), JanelaInicio(4) + Hora1} :
        (pc = "alertas" /\ grupo_arg = "Manutencao" /\ ChegamNaHora(h)
           /\ threshold_arg <= Len(df_ag))
        => /\ \E k \in AmostrasDe(h + Hora1) :
                 /\ df_contagem[k].final = Len(df_ag)
                 /\ df_contagem[k].veiculos_no_poi = PlacasDaTabela
           /\ Cardinality(AlertasDe(h + Hora1)) = Len(df_ag)
           /\ { df_alertas[k].placa : k \in AlertasDe(h + Hora1) } = PlacasDaTabela
           /\ \A k \in AlertasDe(h + Hora1) :
                 /\ df_alertas[k].nivel = <<"Tratativa N", 1>>
                 /\ df_alertas[k].titulo.nivel = 1

====
